---- MODULE Spec2Model ----
(***************************************************************************)
(* npym: the SemVer range algebra (version_man.py), the dependency         *)
(* resolver (resolver.py), the import of names (npm.py), the archive view  *)
(* (views.py), the wheel translator (translator.py) and the chunk iterator *)
(* (iter.py), as state machines.                                           *)
(*                                                                         *)
(*   SpecRanges  two ranges; _intersect_ranges, _union_ranges, __str__     *)
(*   SpecParse   one specifier; parse_spec, sem_range_to_py_range          *)
(*   Spec        Resolver.resolve() on a registry, then wheel METADATA     *)
(*   SpecImport  Npm.import_names, chunk by chunk                          *)
(*   SpecArchive concurrent requests to the archive view                   *)
(*   SpecFetch   Resolver.deep_fetch; FairFetch adds the event loop        *)
(*   SpecTree    deep_fetch, then build_dep_tree on the cache it left      *)
(*   SpecChunks  ChunkIterator.chunks, as import_names reads it            *)
(***************************************************************************)
EXTENDS Integers, Sequences, FiniteSets, TLC

VARIABLES
    ra, rb,        \* SpecRanges: the two Range operands
    rout,          \* SpecRanges: [op, value] result of the last operation
    sp,            \* SpecParse: the specifier (its parse tree)
    sout,          \* SpecParse: [op, value] result of the last operation
    registry,      \* NPM: <<package, version>> -> sequence of [package, spec]
    nodes,         \* Resolver: the arena of Node objects, root at index 1
    queue,         \* build_dep_tree: the work queue (node indices)
    cur,           \* build_dep_tree: node being expanded (0: none)
    deps,          \* build_dep_tree: ResolvedDependency still to ingest
    pc,            \* position of resolve()
    root_deps,     \* Version.dependencies of the root (NotSaved: False)
    store,         \* synthetic Distribution rows
    wheel,         \* Requires-Dist of the last synthesized wheel
    runs,          \* how many times resolve() was called for the root
    names_json,    \* import_names: the list of NPM names of names.json
    todo,          \* import_names: the names of the chunks still to come
    table,         \* import_names: the primary Distribution rows
    raised,        \* import_names: the exception that ended it ("": none)
    package_json,  \* archive: the version_info of the version that is asked for
    request,       \* archive: request -> [pc, error, tarball, steps, work_dir, arch]
    row_lock,      \* archive: the request holding the Distribution row (0: free)
    archives,      \* archive: the committed Archive rows
    downloads,     \* archive: the committed Download rows
    to_fetch,      \* deep_fetch: the queries found so far
    fetching,      \* deep_fetch: the queries a task was created for
    tasks,         \* deep_fetch: every task created, [q, pc, error]
    locks,         \* deep_fetch: the js_names whose lock is held
    _info_cache,   \* Resolver._info_cache: [js_name, info] for every key
    requested,     \* deep_fetch: js_name -> requests sent to the registry
    loop,          \* deep_fetch: position of the coroutine itself
    stream,        \* ChunkIterator: the iterable it is built on
    chunk_size,    \* ChunkIterator: the size chunks() is called with
    chunker,       \* ChunkIterator: [iterator, iterating, _next, iterated]
    gen,           \* chunks(): position of the generator
    range_i,       \* iter_chunk(): turn of its loop it is suspended in (-1: not started)
    handed,        \* iter_chunk(): what the chunk being read has yielded
    yielded        \* chunks(): the chunks read to their end, as sequences

vars == <<ra, rb, rout, sp, sout, registry, nodes, queue, cur, deps, pc,
          root_deps, store, wheel, runs, names_json, todo, table,
          raised, package_json, request, row_lock, archives, downloads,
          to_fetch, fetching, tasks, locks, _info_cache, requested, loop,
          stream, chunk_size, chunker, gen, range_i, handed, yielded>>

(***************************************************************************)
(* Bounds of the model.                                                    *)
(***************************************************************************)
MaxMajor == 2      \* majors 1..MaxMajor in the operands of SpecRanges
MaxPart == 1       \* version parts 0..MaxPart in the specifiers of SpecParse
MaxNodes == 8      \* nodes a tree may hold before the model stops a run

(***************************************************************************)
(* Versions.  SemVersion of the semver package: (major, minor, patch,      *)
(* prerelease, build); comparison ignores build; a prerelease sorts below  *)
(* its release, a numeric identifier below an alphanumeric one.            *)
(***************************************************************************)
SemVersion(M, m, p, pre) ==
    [major |-> M, minor |-> m, patch |-> p, prerelease |-> pre, build |-> ""]

Cmp(x, y) == IF x < y THEN -1 ELSE IF x > y THEN 1 ELSE 0

\* rank of a one-identifier prerelease among the identifiers of the model
PreRank(pre) ==
    CASE pre = "0" -> 0
      [] pre = "1" -> 1
      [] pre = "beta" -> 2
      [] pre = "" -> 3

SemCompare(v, w) ==
    IF v.major # w.major THEN Cmp(v.major, w.major)
    ELSE IF v.minor # w.minor THEN Cmp(v.minor, w.minor)
    ELSE IF v.patch # w.patch THEN Cmp(v.patch, w.patch)
    ELSE Cmp(PreRank(v.prerelease), PreRank(w.prerelease))

\* class Sentinel
Sentinel(always_bigger) == [always_bigger |-> always_bigger]
MAX_VER == Sentinel(TRUE)
MIN_VER == Sentinel(FALSE)
IsSentinel(v) == "always_bigger" \in DOMAIN v

\* ==, <, >, <=, >= between two Ver (Sentinel methods win when the left
\* operand is a Sentinel; SemVersion == Sentinel falls back to Sentinel.__eq__)
VerEq(v, w) ==
    IF IsSentinel(v) /\ IsSentinel(w) THEN v.always_bigger = w.always_bigger
    ELSE IF IsSentinel(v) \/ IsSentinel(w) THEN FALSE
    ELSE SemCompare(v, w) = 0

VerLt(v, w) == IF IsSentinel(v) THEN ~v.always_bigger ELSE SemCompare(v, w) < 0
VerGt(v, w) == IF IsSentinel(v) THEN v.always_bigger ELSE SemCompare(v, w) > 0
VerLe(v, w) == IF IsSentinel(v) THEN VerLt(v, w) \/ VerEq(v, w) ELSE SemCompare(v, w) <= 0
VerGe(v, w) == IF IsSentinel(v) THEN VerGt(v, w) \/ VerEq(v, w) ELSE SemCompare(v, w) >= 0

(***************************************************************************)
(* Bound and Range.                                                        *)
(***************************************************************************)
Bound(version, inclusive) == [version |-> version, inclusive |-> inclusive]
Range(min, max) == [min |-> min, max |-> max]

\* dataclass __eq__ of Bound: (version, inclusive) tuples
BoundEq(a, b) == VerEq(a.version, b.version) /\ a.inclusive = b.inclusive

\* a comparison of bounds by their versions alone
_lt_bound_versions(self, other) ==
    IF IsSentinel(self.version) = IsSentinel(other.version)
       /\ VerEq(self.version, other.version)
    THEN FALSE
    ELSE IF IsSentinel(self.version) THEN ~self.version.always_bigger
    ELSE IF IsSentinel(other.version) THEN other.version.always_bigger
    ELSE SemCompare(self.version, other.version) < 0

_lt_bound(self, other) ==
    IF IsSentinel(self.version) = IsSentinel(other.version)
       /\ VerEq(self.version, other.version)
    THEN self.inclusive /\ ~other.inclusive
    ELSE IF IsSentinel(self.version) THEN ~self.version.always_bigger
    ELSE IF IsSentinel(other.version) THEN other.version.always_bigger
    ELSE SemCompare(self.version, other.version) < 0

\* Bound.__lt__/__le__/__gt__/__ge__ with a Bound on the right
BoundLt(a, b) == _lt_bound(a, b)
BoundLe(a, b) == BoundLt(a, b) \/ BoundEq(a, b)
BoundGt(a, b) == ~BoundLe(a, b)
BoundGe(a, b) == BoundGt(a, b) \/ BoundEq(a, b)

\* Bound.__lt__ and Bound.__gt__ with a SemVersion on the right
_lt_version(self, other) ==
    IF self.inclusive THEN VerLe(self.version, other) ELSE VerLt(self.version, other)

_gt_version(self, other) ==
    IF self.inclusive THEN VerGe(self.version, other) ELSE VerGt(self.version, other)

\* Range.contains
contains(r, version) == _lt_version(r.min, version) /\ _gt_version(r.max, version)

\* the builtins max(a, b) and min(a, b): the first argument unless the second
\* compares strictly greater (smaller)
PyMax(a, b) == IF BoundGt(b, a) THEN b ELSE a
PyMin(a, b) == IF BoundLt(b, a) THEN b ELSE a

_is_overlapping(a, b) == BoundLe(a.min, b.max) /\ BoundLe(b.min, a.max)

_intersect_ranges(a, b) ==
    IF ~_is_overlapping(a, b) THEN <<>>
    ELSE << Range(PyMax(a.min, b.min), PyMin(a.max, b.max)) >>

RECURSIVE IntersectEach(_, _)
IntersectEach(out, r) ==
    IF out = <<>> THEN <<>>
    ELSE _intersect_ranges(Head(out), r) \o IntersectEach(Tail(out), r)

RECURSIVE IntersectFold(_, _)
IntersectFold(out, ranges) ==
    IF ranges = <<>> THEN out
    ELSE IntersectFold(IntersectEach(out, Head(ranges)), Tail(ranges))

intersect_ranges(ranges) ==
    IF ranges = <<>> THEN <<>> ELSE IntersectFold(<< ranges[1] >>, ranges)

_union_ranges(a, b) ==
    IF _is_overlapping(a, b)
    THEN << Range(PyMin(a.min, b.min), PyMax(a.max, b.max)) >>
    ELSE << a, b >>

RECURSIVE UnionEach(_, _)
UnionEach(out, r) ==
    IF out = <<>> THEN <<>>
    ELSE _union_ranges(Head(out), r) \o UnionEach(Tail(out), r)

RECURSIVE UnionFold(_, _)
UnionFold(out, ranges) ==
    IF ranges = <<>> THEN out
    ELSE UnionFold(UnionEach(out, Head(ranges)), Tail(ranges))

union_ranges(ranges) ==
    IF ranges = <<>> THEN <<>> ELSE UnionFold(<< ranges[1] >>, ranges)

\* VersionConstraint: the sequence of its ranges
has_matches(self) == Len(self) > 0

accept(self, version) == \E i \in 1..Len(self) : contains(self[i], version)

intersect(self, other) ==
    LET n == Len(other)
        pair(k) == intersect_ranges(<< self[((k - 1) \div n) + 1],
                                       other[((k - 1) % n) + 1] >>)
        RECURSIVE out(_)
        out(k) == IF k > Len(self) * n THEN << >> ELSE pair(k) \o out(k + 1)
    IN  union_ranges(out(1))

(***************************************************************************)
(* PartialVersion: a version whose parts may be missing or wildcards.      *)
(***************************************************************************)
X == -1        \* the wildcard "x" (VersionSpecTransformer.wildcard)
NONE == -2     \* a part that is not written (the None defaults)

PartialVersion(major, minor, patch, prerelease) ==
    [major |-> major, minor |-> minor, patch |-> patch,
     prerelease |-> prerelease, build |-> ""]

\* the SemVersion(self.major, self.minor, self.patch, prerelease=...) of a
\* fully written partial (the build is not passed on)
Concrete(self) == SemVersion(self.major, self.minor, self.patch, self.prerelease)

\* _range_x with a lower bound of M.0.0 for every major
_range_x_from_zero(self) ==
    IF self.major = X THEN << Range(Bound(MIN_VER, TRUE), Bound(MAX_VER, TRUE)) >>
    ELSE IF self.minor = NONE \/ self.minor = X
    THEN << Range(Bound(SemVersion(self.major, 0, 0, ""), TRUE),
                  Bound(SemVersion(self.major + 1, 0, 0, "0"), FALSE)) >>
    ELSE IF self.patch = NONE \/ self.patch = X
    THEN << Range(Bound(SemVersion(self.major, self.minor, 0, ""), TRUE),
                  Bound(SemVersion(self.major, self.minor + 1, 0, "0"), FALSE)) >>
    ELSE << >>

\* _range_x: << >> stands for None
_range_x(self) ==
    IF self.major = X THEN << Range(Bound(MIN_VER, TRUE), Bound(MAX_VER, TRUE)) >>
    ELSE IF self.minor = NONE \/ self.minor = X
    THEN << Range(Bound(IF self.major = 0 THEN MIN_VER
                        ELSE SemVersion(self.major, 0, 0, ""), TRUE),
                  Bound(SemVersion(self.major + 1, 0, 0, "0"), FALSE)) >>
    ELSE IF self.patch = NONE \/ self.patch = X
    THEN << Range(Bound(SemVersion(self.major, self.minor, 0, ""), TRUE),
                  Bound(SemVersion(self.major, self.minor + 1, 0, "0"), FALSE)) >>
    ELSE << >>

as_range(self) ==
    IF _range_x(self) # << >> THEN _range_x(self)[1]
    ELSE Range(Bound(Concrete(self), TRUE), Bound(Concrete(self), TRUE))

_primitive_ge(self) ==
    IF self.major = X THEN Range(Bound(MIN_VER, TRUE), Bound(MAX_VER, TRUE))
    ELSE IF self.minor = NONE \/ self.minor = X
    THEN Range(Bound(SemVersion(self.major, 0, 0, ""), TRUE), Bound(MAX_VER, TRUE))
    ELSE IF self.patch = NONE \/ self.patch = X
    THEN Range(Bound(SemVersion(self.major, self.minor, 0, ""), TRUE), Bound(MAX_VER, TRUE))
    ELSE Range(Bound(Concrete(self), TRUE), Bound(MAX_VER, TRUE))

_primitive_gt(self) ==
    IF self.major = X THEN Range(Bound(MAX_VER, TRUE), Bound(MAX_VER, TRUE))
    ELSE IF self.minor = NONE \/ self.minor = X
    THEN Range(Bound(SemVersion(self.major + 1, 0, 0, ""), TRUE), Bound(MAX_VER, TRUE))
    ELSE IF self.patch = NONE \/ self.patch = X
    THEN Range(Bound(SemVersion(self.major, self.minor + 1, 0, ""), TRUE), Bound(MAX_VER, TRUE))
    ELSE Range(Bound(Concrete(self), FALSE), Bound(MAX_VER, TRUE))

_primitive_le(self) ==
    IF self.major = X THEN Range(Bound(MIN_VER, TRUE), Bound(MAX_VER, TRUE))
    ELSE IF self.minor = NONE \/ self.minor = X
    THEN Range(Bound(MIN_VER, TRUE), Bound(SemVersion(self.major + 1, 0, 0, "0"), FALSE))
    ELSE IF self.patch = NONE \/ self.patch = X
    THEN Range(Bound(MIN_VER, TRUE),
               Bound(SemVersion(self.major, self.minor + 1, 0, "0"), FALSE))
    ELSE Range(Bound(MIN_VER, TRUE), Bound(Concrete(self), TRUE))

_primitive_lt(self) ==
    IF self.major = X THEN Range(Bound(MIN_VER, TRUE), Bound(MIN_VER, TRUE))
    ELSE IF self.minor = NONE \/ self.minor = X
    THEN Range(Bound(MIN_VER, TRUE), Bound(SemVersion(self.major, 0, 0, "0"), FALSE))
    ELSE IF self.patch = NONE \/ self.patch = X
    THEN Range(Bound(MIN_VER, TRUE), Bound(SemVersion(self.major, self.minor, 0, "0"), FALSE))
    ELSE Range(Bound(MIN_VER, TRUE), Bound(Concrete(self), FALSE))

_primitive_eq(self) == as_range(self)

primitive(self, comparator) ==
    CASE comparator = ">=" -> _primitive_ge(self)
      [] comparator = ">" -> _primitive_gt(self)
      [] comparator = "<=" -> _primitive_le(self)
      [] comparator = "<" -> _primitive_lt(self)
      [] comparator = "=" -> _primitive_eq(self)

tilde(self) ==
    IF _range_x(self) # << >> THEN _range_x(self)[1]
    ELSE Range(Bound(Concrete(self), TRUE),
               Bound(SemVersion(self.major, self.minor + 1, 0, "0"), FALSE))

\* a caret that treats major 0 like every other major
caret_any_major(self) ==
    IF self.major = X THEN Range(Bound(MIN_VER, TRUE), Bound(MAX_VER, TRUE))
    ELSE IF self.minor = NONE \/ self.minor = X \/ self.patch = NONE \/ self.patch = X
    THEN Range(Bound(SemVersion(self.major,
                                IF self.minor \in Nat THEN self.minor ELSE 0, 0, ""), TRUE),
               Bound(SemVersion(self.major + 1, 0, 0, "0"), FALSE))
    ELSE Range(Bound(Concrete(self), TRUE),
               Bound(SemVersion(self.major + 1, 0, 0, "0"), FALSE))

caret(self) ==
    IF self.major = X THEN Range(Bound(MIN_VER, TRUE), Bound(MAX_VER, TRUE))
    ELSE IF self.major = 0 THEN tilde(self)
    ELSE IF self.minor = NONE \/ self.minor = X \/ self.patch = NONE \/ self.patch = X
    THEN Range(Bound(SemVersion(self.major,
                                IF self.minor \in Nat THEN self.minor ELSE 0, 0, ""), TRUE),
               Bound(SemVersion(self.major + 1, 0, 0, "0"), FALSE))
    ELSE Range(Bound(Concrete(self), TRUE),
               Bound(SemVersion(self.major + 1, 0, 0, "0"), FALSE))

(***************************************************************************)
(* The parse tree of a specifier and VersionSpecTransformer.               *)
(*   range_set : sequence of range                                         *)
(*   range     : [kind |-> "hyphen", p1, p2]                               *)
(*             | [kind |-> "simple_set", items |-> sequence of simple]     *)
(*   simple    : [kind |-> "primitive" | "partial" | "tilde" | "caret",    *)
(*                op, version]                                             *)
(***************************************************************************)
Simple(kind, op, version) == [kind |-> kind, op |-> op, version |-> version]
SimpleSet(items) == [kind |-> "simple_set", items |-> items]
Hyphen(p1, p2) == [kind |-> "hyphen", p1 |-> p1, p2 |-> p2]

simple(item) ==
    CASE item.kind = "primitive" -> primitive(item.version, item.op)
      [] item.kind = "tilde" -> tilde(item.version)
      [] item.kind = "caret" -> caret(item.version)
      [] item.kind = "partial" -> as_range(item.version)

\* VersionSpecTransformer.hyphen and .range: the list of ranges of one
\* alternative, still to be intersected
range(item) ==
    IF item.kind = "hyphen"
    THEN << Range(as_range(item.p1).min, as_range(item.p2).max) >>
    ELSE [i \in 1..Len(item.items) |-> simple(item.items[i])]

RECURSIVE range_set(_)
range_set(items) ==
    IF items = << >> THEN << >>
    ELSE intersect_ranges(range(Head(items))) \o range_set(Tail(items))

parse_spec(spec) == range_set(spec)

(***************************************************************************)
(* Python side.  packaging.version.Version reads the text                  *)
(*   f"{finalize_version()}{prerelease}{build}"                            *)
(* so the prerelease and build are glued to the patch number: digits       *)
(* extend the patch, "beta" becomes the pre-release segment b0.            *)
(***************************************************************************)
PyVersion(M, m, p, pre) == [release |-> <<M, m, p>>, pre |-> pre]
PyInvalid == [release |-> << >>, pre |-> <<"InvalidVersion">>]

IsDigit(s) == s \in {"0", "1", "2", "3", "4", "5", "6", "7", "8", "9"}
DigitVal(s) ==
    CASE s = "0" -> 0 [] s = "1" -> 1 [] s = "2" -> 2 [] s = "3" -> 3 [] s = "4" -> 4
      [] s = "5" -> 5 [] s = "6" -> 6 [] s = "7" -> 7 [] s = "8" -> 8 [] s = "9" -> 9

\* PyVersion(f"{M}.{m}.{p}{suffix}") for a suffix of at most one identifier
PyVersionParse(M, m, p, suffix) ==
    CASE suffix = "" -> PyVersion(M, m, p, << >>)
      [] IsDigit(suffix) -> PyVersion(M, m, p * 10 + DigitVal(suffix), << >>)
      [] suffix \in {"a", "alpha"} -> PyVersion(M, m, p, <<"a", 0>>)
      [] suffix \in {"b", "beta"} -> PyVersion(M, m, p, <<"b", 0>>)
      [] suffix \in {"rc", "c", "pre", "preview"} -> PyVersion(M, m, p, <<"rc", 0>>)
      [] OTHER -> PyInvalid

PyBound(version, inclusive) == [version |-> version, inclusive |-> inclusive]
PyRange(min, max) == [min |-> min, max |-> max]

as_py_bound(self) ==
    IF IsSentinel(self.version) THEN PyBound(self.version, TRUE)
    ELSE PyBound(PyVersionParse(self.version.major, self.version.minor,
                                self.version.patch,
                                self.version.prerelease \o self.version.build),
                 self.inclusive)

as_py_range(self) == PyRange(as_py_bound(self.min), as_py_bound(self.max))

\* one comparator of a Python specifier; a specifier is a sequence of them,
\* written joined by commas
Clause(op, version) == [op |-> op, version |-> version]
PyZero == PyVersion(0, 0, 0, << >>)

\* RangeStrMixin.__str__
RangeStr(self) ==
    LET min_s == IsSentinel(self.min.version)
        max_s == IsSentinel(self.max.version)
    IN  IF min_s /\ max_s
        THEN IF min_s # max_s THEN << Clause(">=", PyZero) >>
             ELSE << Clause("<", PyZero) >>
        ELSE IF min_s
        THEN IF self.min.inclusive THEN << Clause("<=", self.max.version) >>
             ELSE << Clause("<", self.max.version) >>
        ELSE IF max_s
        THEN IF self.max.inclusive THEN << Clause(">=", self.min.version) >>
             ELSE << Clause(">", self.min.version) >>
        ELSE IF self.min.inclusive /\ self.max.inclusive
                /\ self.min.version = self.max.version
        THEN << Clause("==", self.min.version) >>
        ELSE IF self.min.inclusive /\ self.max.inclusive
        THEN << Clause(">=", self.min.version), Clause("<=", self.max.version) >>
        ELSE IF self.min.inclusive
        THEN << Clause(">=", self.min.version), Clause("<", self.max.version) >>
        ELSE IF self.max.inclusive
        THEN << Clause(">", self.min.version), Clause("<=", self.max.version) >>
        ELSE << Clause(">", self.min.version), Clause("<", self.max.version) >>

\* the outcome of a conversion: the specifier, or the exception raised
Ok(value) == [error |-> "", value |-> value]
Raise(error) == [error |-> error, value |-> << >>]

HasInvalid(r) == r.min.version = PyInvalid \/ r.max.version = PyInvalid

flatten_py_range(ranges) ==
    IF Len(ranges) = 0 THEN Ok(<< Clause("<", PyZero) >>)
    ELSE IF Len(ranges) = 1 THEN Ok(RangeStr(ranges[1]))
    ELSE Raise("ValueError")

\* [r.as_py_range() for r in ranges], then flatten_py_range; InvalidVersion
\* (a ValueError) leaves the comprehension
FlattenSemRanges(ranges) ==
    LET py_ranges == [i \in 1..Len(ranges) |-> as_py_range(ranges[i])]
    IN  IF \E i \in 1..Len(ranges) : HasInvalid(py_ranges[i]) THEN Raise("ValueError")
        ELSE flatten_py_range(py_ranges)

sem_range_to_py_range(spec) == FlattenSemRanges(union_ranges(parse_spec(spec)))


(***************************************************************************)
(* SpecRanges: two ranges are given; one of _intersect_ranges,             *)
(* _union_ranges, __str__ (on the Python form of ra), contains, the        *)
(* comparisons of their bounds and union_ranges is applied.                *)
(***************************************************************************)
NoResult == [op |-> "", value |-> << >>]
NotSaved == [saved |-> FALSE, value |-> << >>]

AlgebraIdle ==
    /\ ra = Range(Bound(MIN_VER, TRUE), Bound(MAX_VER, TRUE))
    /\ rb = Range(Bound(MIN_VER, TRUE), Bound(MAX_VER, TRUE))
    /\ rout = NoResult

ParseIdle == sp = << >> /\ sout = NoResult

ResolverIdle ==
    /\ registry = << >> /\ nodes = << >> /\ queue = << >> /\ cur = 0
    /\ deps = << >> /\ pc = "idle"
    /\ root_deps = NotSaved /\ store = {} /\ wheel = NoResult /\ runs = 0

ImportIdle == names_json = << >> /\ todo = << >> /\ table = {} /\ raised = ""

ArchiveIdle ==
    /\ package_json = << >> /\ request = << >> /\ row_lock = 0
    /\ archives = {} /\ downloads = {}

FetchIdle ==
    /\ to_fetch = {} /\ fetching = {} /\ tasks = << >> /\ locks = {}
    /\ _info_cache = {} /\ requested = << >> /\ loop = ""

ChunkIdle ==
    /\ stream = << >> /\ chunk_size = 0 /\ chunker = << >> /\ gen = ""
    /\ range_i = 0 /\ handed = << >> /\ yielded = << >>

algebraVars == <<ra, rb, rout>>
parseVars == <<sp, sout>>
resolverVars == <<registry, nodes, queue, cur, deps, pc, root_deps, store, wheel,
                  runs>>
importVars == <<names_json, todo, table, raised>>
archiveVars == <<package_json, request, row_lock, archives, downloads>>
fetchVars == <<to_fetch, fetching, tasks, locks, _info_cache, requested, loop>>
chunkVars == <<stream, chunk_size, chunker, gen, range_i, handed, yielded>>

\* the versions bounds sit on: every release M.0.0 and its lowest
\* prerelease M.0.0-0
BoundVersions == { SemVersion(M, 0, 0, pre) : M \in 1..MaxMajor, pre \in {"", "0"} }

\* a Sentinel bound is always built inclusive (Bound(MIN_VER), Bound(MAX_VER))
Bounds ==
    { Bound(v, i) : v \in BoundVersions, i \in BOOLEAN }
        \cup { Bound(MIN_VER, TRUE), Bound(MAX_VER, TRUE) }

Ranges == { Range(lo, hi) : lo \in Bounds, hi \in Bounds }

\* the versions containment is asked about
ProbeVersions ==
    { SemVersion(M, m, 0, pre) : M \in 0..(MaxMajor + 1), m \in {0, 1},
                                 pre \in {"", "0", "beta"} }

InitRanges ==
    /\ ra \in Ranges /\ rb \in Ranges /\ rout = NoResult
    /\ ParseIdle /\ ResolverIdle /\ ImportIdle /\ ArchiveIdle
    /\ FetchIdle /\ ChunkIdle

IntersectRanges ==
    /\ rout = NoResult
    /\ rout' = [op |-> "_intersect_ranges", value |-> _intersect_ranges(ra, rb)]
    /\ UNCHANGED <<ra, rb, parseVars, resolverVars, importVars, archiveVars,
                 fetchVars, chunkVars>>

UnionRanges ==
    /\ rout = NoResult
    /\ rout' = [op |-> "_union_ranges", value |-> _union_ranges(ra, rb)]
    /\ UNCHANGED <<ra, rb, parseVars, resolverVars, importVars, archiveVars,
                 fetchVars, chunkVars>>

Str ==
    /\ rout = NoResult
    /\ rout' = [op |-> "__str__", value |-> RangeStr(as_py_range(ra))]
    /\ UNCHANGED <<ra, rb, parseVars, resolverVars, importVars, archiveVars,
                 fetchVars, chunkVars>>

\* Range.contains, asked for every probe version: the versions it admits
Contains ==
    /\ rout = NoResult
    /\ rout' = [op |-> "contains", value |-> { v \in ProbeVersions : contains(ra, v) }]
    /\ UNCHANGED <<ra, rb, parseVars, resolverVars, importVars, archiveVars,
                 fetchVars, chunkVars>>

\* the four operators and == of Bound, on every pair of bounds of ra and rb
Compare ==
    /\ rout = NoResult
    /\ rout' = [op |-> "compare",
                value |-> [a \in {ra.min, ra.max, rb.min, rb.max} |->
                             [b \in {ra.min, ra.max, rb.min, rb.max} |->
                                [lt |-> BoundLt(a, b), le |-> BoundLe(a, b),
                                 eq |-> BoundEq(a, b),
                                 gt |-> BoundGt(a, b), ge |-> BoundGe(a, b)]]]]
    /\ UNCHANGED <<ra, rb, parseVars, resolverVars, importVars, archiveVars,
                 fetchVars, chunkVars>>

\* the ranges of a specifier that pins one release ("1.0.0")
PinnedRanges ==
    { Range(Bound(SemVersion(M, 0, 0, ""), TRUE), Bound(SemVersion(M, 0, 0, ""), TRUE)) :
        M \in 1..MaxMajor }

\* union_ranges on a list of one, two or three ranges
UnionOfList ==
    /\ rout = NoResult
    /\ \E ranges \in {<< ra >>, << ra, rb >>} \cup { << ra, rb, rc >> : rc \in PinnedRanges } :
         rout' = [op |-> "union_ranges",
                  value |-> [ranges |-> ranges, out |-> union_ranges(ranges)]]
    /\ UNCHANGED <<ra, rb, parseVars, resolverVars, importVars, archiveVars,
                 fetchVars, chunkVars>>

\* VersionConstraint.intersect of the constraint of ra with a constraint of
\* rb, alone or beside a pinned release
Intersect ==
    /\ rout = NoResult
    /\ \E other \in {<< rb >>} \cup { << rb, rc >> : rc \in PinnedRanges } :
         rout' = [op |-> "intersect",
                  value |-> [self |-> << ra >>, other |-> other,
                             out |-> intersect(<< ra >>, other)]]
    /\ UNCHANGED <<ra, rb, parseVars, resolverVars, importVars, archiveVars,
                 fetchVars, chunkVars>>

NextRanges ==
    \/ IntersectRanges \/ UnionRanges \/ Str \/ Contains \/ Compare \/ UnionOfList
    \/ Intersect

SpecRanges == InitRanges /\ [][NextRanges]_vars

\* some range of the sequence contains v
AnyContains(ranges, v) == \E i \in 1..Len(ranges) : contains(ranges[i], v)

\* C1: a version is in a range returned by _intersect_ranges(a, b) exactly
\* when both a and b contain it, for every combination of inclusive and
\* exclusive bounds.
C1_IntersectionIsExact ==
    rout.op = "_intersect_ranges" =>
        \A v \in ProbeVersions :
            AnyContains(rout.value, v) <=> (contains(ra, v) /\ contains(rb, v))

\* The table of the specification for one Python range; << >> for a shape
\* the table does not list (a lower bound on MAX_VER, an upper one on MIN_VER).
TableStr(r) ==
    LET lo == r.min.version
        hi == r.max.version
        lower == Clause(IF r.min.inclusive THEN ">=" ELSE ">", lo)
        upper == Clause(IF r.max.inclusive THEN "<=" ELSE "<", hi)
    IN  IF lo = MAX_VER \/ hi = MIN_VER THEN << >>
        ELSE IF lo = MIN_VER /\ hi = MAX_VER THEN << Clause(">=", PyZero) >>
        ELSE IF lo = MIN_VER THEN << upper >>
        ELSE IF hi = MAX_VER THEN << lower >>
        ELSE IF lo = hi /\ r.min.inclusive /\ r.max.inclusive THEN << Clause("==", lo) >>
        ELSE << lower, upper >>

\* C2: __str__ renders every shape of range as the table says: [MIN, MAX] as
\* >=0.0.0, a range open below as <=v or <v, a range open above as >=v or >v,
\* [v, v] as ==v, any other as two comparators with the inclusivity of their
\* own bounds.
C2_StrFollowsTable ==
    (rout.op = "__str__" /\ TableStr(as_py_range(ra)) # << >>) =>
        rout.value = TableStr(as_py_range(ra))


\* C22: a prerelease version that Range.contains admits has the
\* (major, minor, patch) of a bound of the range that is itself a prerelease.
C22_PrereleaseNeedsPrereleaseBound ==
    rout.op = "contains" =>
        \A v \in rout.value :
            v.prerelease # "" =>
                \E b \in {ra.min, ra.max} :
                    /\ ~IsSentinel(b.version)
                    /\ b.version.prerelease # ""
                    /\ b.version.major = v.major /\ b.version.minor = v.minor
                    /\ b.version.patch = v.patch

\* C23: the comparison of Bounds is a strict total order on which the
\* operators agree: exactly one of a < b, a == b, a > b; a > b when b < a;
\* < is transitive; <= is (< or ==) and >= is (> or ==); Bound(MIN_VER) is
\* below and Bound(MAX_VER) above every bound on a concrete version; at the
\* same concrete version the inclusive bound is below the exclusive one.
C23_BoundsTotallyOrdered ==
    rout.op = "compare" =>
        LET is == rout.value
            S == DOMAIN is
            one(p, q, r) == (p /\ ~q /\ ~r) \/ (~p /\ q /\ ~r) \/ (~p /\ ~q /\ r)
        IN  /\ \A a, b \in S :
                  /\ one(is[a][b].lt, is[a][b].eq, is[a][b].gt)
                  /\ is[a][b].gt = is[b][a].lt
                  /\ is[a][b].le = (is[a][b].lt \/ is[a][b].eq)
                  /\ is[a][b].ge = (is[a][b].gt \/ is[a][b].eq)
                  /\ is[a][b].eq = (a = b)
            /\ \A a, b, c \in S : (is[a][b].lt /\ is[b][c].lt) => is[a][c].lt
            /\ \A a, b \in S :
                  ~IsSentinel(b.version) =>
                      /\ a = Bound(MIN_VER, TRUE) => is[a][b].lt
                      /\ a = Bound(MAX_VER, TRUE) => is[a][b].gt
                      /\ (a.version = b.version /\ a.inclusive /\ ~b.inclusive)
                            => is[a][b].lt

\* three bounds were compared: the same version inclusive and exclusive,
\* and a sentinel
C23_InclusiveExclusiveAndSentinel ==
    /\ rout.op = "compare"
    /\ \E a, b, c \in DOMAIN rout.value :
         /\ ~IsSentinel(a.version) /\ a.version = b.version
         /\ a.inclusive /\ ~b.inclusive /\ IsSentinel(c.version)
         /\ rout.value[a][b].lt /\ rout.value[c][a].gt

PairwiseDisjoint(ranges) ==
    \A i, j \in 1..Len(ranges) : i # j => ~_is_overlapping(ranges[i], ranges[j])

\* C26: union_ranges returns a list in which no two ranges overlap and no
\* range appears twice, a version is contained in a returned range iff it is
\* contained in an input range, and n pairwise disjoint ranges come back as
\* exactly those n ranges.
C26_UnionIsSimplified ==
    rout.op = "union_ranges" =>
        LET ranges == rout.value.ranges
            out == rout.value.out
        IN  /\ PairwiseDisjoint(out)
            /\ \A i, j \in 1..Len(out) : i # j => out[i] # out[j]
            /\ \A v \in ProbeVersions :
                   (\E i \in 1..Len(out) : contains(out[i], v))
                       <=> (\E i \in 1..Len(ranges) : contains(ranges[i], v))
            /\ PairwiseDisjoint(ranges) => out = ranges

\* C28: the constraint intersect returns has matches iff it accepts at least
\* one version, and it has no ranges whenever no version is accepted by both
\* operands.
C28_HasMatchesIffAccepts ==
    rout.op = "intersect" =>
        /\ has_matches(rout.value.out)
               <=> (\E v \in ProbeVersions : accept(rout.value.out, v))
        /\ (~\E v \in ProbeVersions :
                accept(rout.value.self, v) /\ accept(rout.value.other, v))
               => rout.value.out = << >>

(***************************************************************************)
(* SpecParse: a specifier is given as its parse tree; parse_spec or        *)
(* sem_range_to_py_range is applied.                                       *)
(***************************************************************************)
Parts == 0..MaxPart
PreIds == {"", "0", "1", "beta"}

\* partial: xr [ "." xr [ "." xr [ qualifier ] ] ]
Partials ==
    { PartialVersion(M, NONE, NONE, "") : M \in Parts \cup {X} }
        \cup { PartialVersion(M, m, NONE, "") : M \in Parts \cup {X}, m \in Parts \cup {X} }
        \cup { PartialVersion(M, m, p, pre) :
                 M \in Parts \cup {X}, m \in Parts \cup {X}, p \in Parts \cup {X},
                 pre \in PreIds }

ConcretePartials == { q \in Partials : q.major # X /\ q.minor \in Nat /\ q.patch \in Nat }
PlainPartials == { q \in Partials : q.prerelease = "" }

Simples ==
    { Simple("primitive", op, q) : op \in {">=", ">", "<=", "<", "="}, q \in Partials }
        \cup { Simple(k, "", q) : k \in {"partial", "tilde", "caret"}, q \in Partials }

\* the specifier is one simple, a lower and an upper comparator, a hyphen
\* range, or two alternatives
InitParse ==
    /\ \/ \E i \in Simples : sp = << SimpleSet(<< i >>) >>
       \/ \E lo \in {">=", ">"}, hi \in {"<=", "<"},
             q1 \in ConcretePartials, q2 \in ConcretePartials :
               sp = << SimpleSet(<< Simple("primitive", lo, q1),
                                    Simple("primitive", hi, q2) >>) >>
       \/ \E q1 \in PlainPartials, q2 \in PlainPartials : sp = << Hyphen(q1, q2) >>
       \/ \E q1 \in PlainPartials, q2 \in PlainPartials :
               sp = << SimpleSet(<< Simple("partial", "", q1) >>),
                       SimpleSet(<< Simple("partial", "", q2) >>) >>
    /\ sout = NoResult
    /\ AlgebraIdle /\ ResolverIdle /\ ImportIdle /\ ArchiveIdle
    /\ FetchIdle /\ ChunkIdle

ParseSpec ==
    /\ sout = NoResult
    /\ sout' = [op |-> "parse_spec", value |-> parse_spec(sp)]
    /\ UNCHANGED <<sp, algebraVars, resolverVars, importVars, archiveVars,
                 fetchVars, chunkVars>>

SemRangeToPyRange ==
    /\ sout = NoResult
    /\ sout' = [op |-> "sem_range_to_py_range", value |-> sem_range_to_py_range(sp)]
    /\ UNCHANGED <<sp, algebraVars, resolverVars, importVars, archiveVars,
                 fetchVars, chunkVars>>

NextParse == ParseSpec \/ SemRangeToPyRange

SpecParse == InitParse /\ [][NextParse]_vars

\* PEP 440 order of two Python versions: by release, a pre-release below its
\* release, pre-releases by letter (a < b < rc) and number
PyPreRank(pre) ==
    IF pre = << >> THEN <<3, 0>>
    ELSE << (CASE pre[1] = "a" -> 0 [] pre[1] = "b" -> 1 [] pre[1] = "rc" -> 2), pre[2] >>

PyCompare(v, w) ==
    IF v.release[1] # w.release[1] THEN Cmp(v.release[1], w.release[1])
    ELSE IF v.release[2] # w.release[2] THEN Cmp(v.release[2], w.release[2])
    ELSE IF v.release[3] # w.release[3] THEN Cmp(v.release[3], w.release[3])
    ELSE IF PyPreRank(v.pre)[1] # PyPreRank(w.pre)[1]
    THEN Cmp(PyPreRank(v.pre)[1], PyPreRank(w.pre)[1])
    ELSE Cmp(PyPreRank(v.pre)[2], PyPreRank(w.pre)[2])

\* a Python specifier admits the release v: every comparator holds
PyAdmits(clauses, v) ==
    \A i \in 1..Len(clauses) :
        LET c == PyCompare(v, clauses[i].version)
        IN  CASE clauses[i].op = "==" -> c = 0
              [] clauses[i].op = ">=" -> c >= 0
              [] clauses[i].op = ">" -> c > 0
              [] clauses[i].op = "<=" -> c <= 0
              [] clauses[i].op = "<" -> c < 0

\* the releases the two sides are asked about, as (major, minor, patch)
ProbeReleases == (0..(MaxPart + 1)) \X (0..(MaxPart + 1)) \X (0..(MaxPart + 1))

\* C3: for a specifier that compiles to exactly one range, the Python
\* specifier of sem_range_to_py_range admits exactly the releases the
\* compiled range admits.
C3_PyRangeKeepsReleases ==
    (sout.op = "sem_range_to_py_range" /\ Len(parse_spec(sp)) = 1) =>
        /\ sout.value.error = ""
        /\ \A t \in ProbeReleases :
              PyAdmits(sout.value.value, PyVersion(t[1], t[2], t[3], << >>))
                  <=> contains(parse_spec(sp)[1], SemVersion(t[1], t[2], t[3], ""))


\* the partial of a specifier that is one partial without operator
IsPartial(spec) ==
    /\ Len(spec) = 1 /\ spec[1].kind = "simple_set"
    /\ Len(spec[1].items) = 1 /\ spec[1].items[1].kind = "partial"

\* the table of the no-operator form; zero is the lower bound of a partial
\* of major 0 whose minor is missing or a wildcard
PartialTable(P, zero) ==
    IF P.major = X THEN Range(Bound(MIN_VER, TRUE), Bound(MAX_VER, TRUE))
    ELSE IF P.minor \in {NONE, X}
    THEN Range(Bound(IF P.major = 0 THEN zero ELSE SemVersion(P.major, 0, 0, ""), TRUE),
               Bound(SemVersion(P.major + 1, 0, 0, "0"), FALSE))
    ELSE IF P.patch \in {NONE, X}
    THEN Range(Bound(SemVersion(P.major, P.minor, 0, ""), TRUE),
               Bound(SemVersion(P.major, P.minor + 1, 0, "0"), FALSE))
    ELSE Range(Bound(SemVersion(P.major, P.minor, P.patch, P.prerelease), TRUE),
               Bound(SemVersion(P.major, P.minor, P.patch, P.prerelease), TRUE))

\* C24 as stated: a partial written without operator compiles to
\* [MIN_VER, MAX_VER] for a wildcard major, to [M.0.0, (M+1).0.0-0) for a
\* missing or wildcard minor and every major M >= 0, to [M.m.0, M.(m+1).0-0)
\* for a missing or wildcard patch, and to [v, v] when it is fully written.
C24_PartialAsRange ==
    (sout.op = "parse_spec" /\ IsPartial(sp)) =>
        sout.value = << PartialTable(sp[1].items[1].version, SemVersion(0, 0, 0, "")) >>

\* C24: a partial written without operator compiles to [MIN_VER, MAX_VER]
\* for a wildcard major, to [M.0.0, (M+1).0.0-0) for a missing or wildcard
\* minor and a major M >= 1, to [MIN_VER, 1.0.0-0) for a missing or wildcard
\* minor and major 0, to [M.m.0, M.(m+1).0-0) for a missing or wildcard
\* patch, and to [v, v] when it is fully written.
C24_PartialAsRangeFromMinAtZero ==
    (sout.op = "parse_spec" /\ IsPartial(sp)) =>
        sout.value = << PartialTable(sp[1].items[1].version, MIN_VER) >>

\* "0" or "0.x" has been compiled
C24_ZeroMajorCompiled ==
    /\ sout.op = "parse_spec" /\ IsPartial(sp)
    /\ sp[1].items[1].version.major = 0
    /\ sp[1].items[1].version.minor \in {NONE, X}
    /\ sout.value[1].min.version = MIN_VER

IsOperator(spec, kind) ==
    /\ Len(spec) = 1 /\ spec[1].kind = "simple_set"
    /\ Len(spec[1].items) = 1 /\ spec[1].items[1].kind = kind

FullyWritten(P) == P.major \in Nat /\ P.minor \in Nat /\ P.patch \in Nat

\* C25: for a fully written P = M.m.p, ~P compiles to [M.m.p, M.(m+1).0-0);
\* ^P compiles to [M.m.p, (M+1).0.0-0) when M >= 1 and to the range of ~P
\* when M = 0; when M >= 1 and the minor or the patch is missing or a
\* wildcard, ^P compiles to [M.m.0, (M+1).0.0-0), a minor that is not
\* written as a number counting as 0.
C25_TildeAndCaret ==
    sout.op = "parse_spec" =>
        LET P == sp[1].items[1].version
            next_minor == Bound(SemVersion(P.major, P.minor + 1, 0, "0"), FALSE)
            next_major == Bound(SemVersion(P.major + 1, 0, 0, "0"), FALSE)
            written == Bound(SemVersion(P.major, P.minor, P.patch, P.prerelease), TRUE)
        IN  /\ (IsOperator(sp, "tilde") /\ FullyWritten(P)) =>
                    sout.value = << Range(written, next_minor) >>
            /\ (IsOperator(sp, "caret") /\ FullyWritten(P) /\ P.major >= 1) =>
                    sout.value = << Range(written, next_major) >>
            /\ (IsOperator(sp, "caret") /\ FullyWritten(P) /\ P.major = 0) =>
                    sout.value = << Range(written, next_minor) >>
            /\ (IsOperator(sp, "caret") /\ ~FullyWritten(P) /\ P.major >= 1) =>
                    sout.value =
                        << Range(Bound(SemVersion(P.major,
                                                  IF P.minor \in Nat THEN P.minor ELSE 0,
                                                  0, ""), TRUE),
                                 next_major) >>

\* ^0.m.p has been compiled to a range that ends below 0.(m+1).0
C25_CaretOfZeroMajor ==
    /\ sout.op = "parse_spec" /\ IsOperator(sp, "caret")
    /\ FullyWritten(sp[1].items[1].version)
    /\ sp[1].items[1].version.major = 0
    /\ sout.value[1].max.version.major = 0

(***************************************************************************)
(* The resolver.  A Distribution is named by its js_name, a Version is     *)
(* [distribution, js_version], a VersionConstraint is its sequence of      *)
(* ranges.  The registry lists r at 1.0.0 (the root of the resolution),    *)
(* n and x at 1.0.0 and 2.0.0; what each version depends on varies.        *)
(***************************************************************************)
Packages == {"r", "n", "x"}

\* package_info["versions"] of a package
RegistryVersions(js_name) ==
    IF js_name = "r" THEN { SemVersion(1, 0, 0, "") }
    ELSE { SemVersion(1, 0, 0, ""), SemVersion(2, 0, 0, "") }

Version(distribution, js_version) ==
    [distribution |-> distribution, js_version |-> js_version]

version_sem_to_py(v) ==
    PyVersionParse(v.major, v.minor, v.patch, v.prerelease \o v.build)

\* the js versions of a distribution, sorted by Python version, highest first
_package_versions(distribution) ==
    LET S == RegistryVersions(distribution)
    IN  CHOOSE s \in [1..Cardinality(S) -> S] :
            \A i, j \in 1..Cardinality(S) :
                i < j => PyCompare(version_sem_to_py(s[i]), version_sem_to_py(s[j])) > 0

\* VersionConstraint
flat_py_range(self) == FlattenSemRanges(self)

\* << >> stands for None
find_best_version(constraint, distribution) ==
    LET versions == _package_versions(distribution)
        accepted == { i \in 1..Len(versions) : accept(constraint, versions[i]) }
    IN  IF accepted = {} THEN << >>
        ELSE << Version(distribution,
                        versions[CHOOSE i \in accepted : \A j \in accepted : i <= j]) >>

\* a specifier the grammar does not parse (a tag, a URL)
Unparseable == << [kind |-> "tag", items |-> << >>] >>

\* VersionConstraint.from_spec
from_spec(spec) == IF spec = Unparseable THEN Raise("LarkError") ELSE Ok(parse_spec(spec))

ResolvedDependency(version, constraint) == [version |-> version, constraint |-> constraint]

\* version_info.get("dependencies", {}) of a Version
version_info(version) == registry[<< version.distribution, version.js_version >>]

\* get_dependencies on the dependencies a version declares: the first
\* specifier that does not parse, or that no version satisfies, ends the call
get_dependencies_of(declared) ==
    LET constraint(i) == from_spec(declared[i].spec)
        best_version(i) == find_best_version(constraint(i).value, declared[i].package)
        error(i) == IF constraint(i).error # "" THEN constraint(i).error
                    ELSE IF best_version(i) = << >> THEN "ValueError" ELSE ""
        failed == { i \in 1..Len(declared) : error(i) # "" }
    IN  IF failed # {}
        THEN Raise(error(CHOOSE i \in failed : \A j \in failed : i <= j))
        ELSE Ok([i \in 1..Len(declared) |->
                    ResolvedDependency(best_version(i)[1], constraint(i).value)])

get_dependencies(version) == get_dependencies_of(version_info(version))

(***************************************************************************)
(* Node: the tree is the arena nodes, a node is its index, 0 is None.      *)
(***************************************************************************)
Node(version, parent, constraint) ==
    [version |-> version, parent |-> parent, children |-> << >>,
     constraint |-> constraint, resolution |-> << >>,
     _dist_cache |-> [d \in Packages |-> 0]]

RECURSIVE root(_, _)
root(ns, self) == IF ns[self].parent = 0 THEN self ELSE root(ns, ns[self].parent)

\* the js_name of the node and of its ancestors, the root's first
RECURSIVE ancestors_js_names(_, _)
ancestors_js_names(ns, self) ==
    IF ns[self].parent = 0 THEN << ns[self].version.distribution >>
    ELSE Append(ancestors_js_names(ns, ns[self].parent), ns[self].version.distribution)

\* the arena after self.add_child(version, constraint); the child is its
\* last node
add_child(ns, self, version, constraint) ==
    Append([ns EXCEPT ![self].children = Append(@, Len(ns) + 1),
                      ![self]._dist_cache[version.distribution] = Len(ns) + 1],
           Node(version, self, constraint))

RECURSIVE node_for(_, _, _)
node_for(ns, self, distribution) ==
    IF ns[self]._dist_cache[distribution] # 0 THEN ns[self]._dist_cache[distribution]
    ELSE IF ns[self].parent = 0 THEN 0
    ELSE node_for(ns, ns[self].parent, distribution)

\* ingest: [kind, modified, node, nodes], nodes being the arena afterwards
ingest(ns, current_node, dep) ==
    LET node == node_for(ns, current_node, dep.version.distribution)
        common == intersect(ns[node].constraint, dep.constraint)
        best_version == IF has_matches(common)
                        THEN find_best_version(common, dep.version.distribution)
                        ELSE << >>
    IN  IF node # 0
        THEN IF has_matches(common) /\ best_version # << >>
             THEN [kind |-> "merge", modified |-> ns[node].version # best_version[1],
                   node |-> node,
                   nodes |-> [ns EXCEPT ![node].constraint = common,
                                        ![node].version = best_version[1]]]
             ELSE [kind |-> "branch", modified |-> TRUE, node |-> Len(ns) + 1,
                   nodes |-> add_child(ns, current_node, dep.version, dep.constraint)]
        ELSE [kind |-> "hoist", modified |-> TRUE, node |-> Len(ns) + 1,
              nodes |-> add_child(ns, root(ns, current_node), dep.version,
                                  dep.constraint)]

(***************************************************************************)
(* Spec: Resolver(version).resolve() for the root r 1.0.0 on a registry,   *)
(* then wheels are made for the distributions it stored.                   *)
(***************************************************************************)
\* the specifiers of the registries as parse trees: "*", "1.0.0",
\* "=1.0.0", "<2.0.0", "<=2.0.0", "1.0.0 || 2.0.0"
Star == << SimpleSet(<< Simple("partial", "", PartialVersion(X, NONE, NONE, "")) >>) >>
Exact(M) == << SimpleSet(<< Simple("partial", "", PartialVersion(M, 0, 0, "")) >>) >>
Comparator(op, M) ==
    << SimpleSet(<< Simple("primitive", op, PartialVersion(M, 0, 0, "")) >>) >>

\* a package.json may or may not declare the package, with one of the specs
Declared(package, specs) ==
    { << >> } \cup { << [package |-> package, spec |-> s] >> : s \in specs }

Registries ==
    { [k \in UNION { { << p, v >> : v \in RegistryVersions(p) } : p \in Packages } |->
          CASE k = << "r", SemVersion(1, 0, 0, "") >> -> rn \o rx
            [] k = << "n", SemVersion(1, 0, 0, "") >> -> n1x
            [] k = << "n", SemVersion(2, 0, 0, "") >> -> n2x \o n2r
            [] k = << "x", SemVersion(1, 0, 0, "") >> -> x1n \o x1x
            [] k = << "x", SemVersion(2, 0, 0, "") >> -> x2n \o x2x] :
        rn \in Declared("n", {Star}),
        rx \in Declared("x", {Star, Comparator("=", 1), Comparator("=", 2),
                              Comparator("<=", 2), Exact(1) \o Exact(2)}),
        n1x \in Declared("x", {Comparator("=", 1)}),
        n2x \in Declared("x", {Star, Comparator("=", 2), Comparator("<", 2)}),
        n2r \in Declared("r", {Star, Comparator("=", 2)}),
        x1n \in Declared("n", {Comparator("=", 1)}),
        x1x \in Declared("x", {Comparator("=", 2)}),
        x2n \in Declared("n", {Comparator("=", 1)}),
        x2x \in Declared("x", {Comparator("=", 1)}) }

\* Resolver.__init__, and the queue = [self.root] of build_dep_tree
Init ==
    /\ registry \in Registries
    /\ nodes = << Node(Version("r", SemVersion(1, 0, 0, "")), 0, parse_spec(Exact(1))) >>
    /\ queue = << 1 >> /\ cur = 0 /\ deps = << >>
    /\ pc = "build_dep_tree"
    /\ root_deps = NotSaved /\ store = {} /\ wheel = NoResult /\ runs = 1
    /\ AlgebraIdle /\ ParseIdle /\ ImportIdle /\ ArchiveIdle
    /\ FetchIdle /\ ChunkIdle

\* build_dep_tree: node := queue.pop(0), then get_dependencies(node.version)
Expand ==
    /\ pc = "build_dep_tree" /\ cur = 0 /\ queue # << >>
    /\ LET found == get_dependencies(nodes[Head(queue)].version)
       IN  IF found.error # ""
           THEN pc' = "ValueError in get_dependencies" /\ deps' = << >> /\ cur' = 0
           ELSE /\ pc' = pc /\ deps' = found.value
                /\ cur' = IF found.value = << >> THEN 0 ELSE Head(queue)
    /\ queue' = Tail(queue)
    /\ UNCHANGED <<registry, nodes, root_deps, store, wheel, runs, algebraVars, parseVars,
                   importVars, archiveVars, fetchVars, chunkVars>>

\* build_dep_tree: one turn of "for dep in ...": ingest, and the node is
\* queued when modified.  A tree of more than MaxNodes nodes is not followed.
Ingest ==
    /\ pc = "build_dep_tree" /\ cur # 0
    /\ LET got == ingest(nodes, cur, Head(deps))
       IN  IF Len(got.nodes) > MaxNodes
           THEN pc' = "exhausted" /\ UNCHANGED <<nodes, queue, cur, deps>>
           ELSE /\ nodes' = got.nodes
                /\ queue' = IF got.modified THEN Append(queue, got.node) ELSE queue
                /\ deps' = Tail(deps)
                /\ cur' = IF Tail(deps) = << >> THEN 0 ELSE cur
                /\ pc' = pc
    /\ UNCHANGED <<registry, root_deps, store, wheel, runs, algebraVars, parseVars,
                   importVars, archiveVars, fetchVars, chunkVars>>

\* build_dep_tree returns when the queue is empty; save_dependencies follows
Built ==
    /\ pc = "build_dep_tree" /\ cur = 0 /\ queue = << >>
    /\ pc' = "_resolve_nodes"
    /\ UNCHANGED <<registry, nodes, queue, cur, deps, root_deps, store, wheel,
                   runs, algebraVars, parseVars,
                   importVars, archiveVars, fetchVars, chunkVars>>

(***************************************************************************)
(* save_dependencies.  A python name is [base, signature]; a real          *)
(* distribution has no signature, a synthetic one has x<hash_data(...)>.   *)
(* A dict is the set of its << key, value >> pairs.                        *)
(***************************************************************************)
\* NormalizedName.py_name of a package without organisation
py_name(js_name) == [base |-> "npym." \o js_name, signature |-> << >>]

\* the 8 hex digits of the SHA-256 of the data, taken as free of collisions
hash_data(data) == << "sha256", data >>

\* the NodeResolution _resolve_nodes computes for a node
NodeResolution(ns, self) ==
    LET js_name == ancestors_js_names(ns, self)
        signature_data == [name |-> ns[1].version.distribution,
                           version |-> ns[1].version.js_version,
                           path |-> js_name,
                           dependencies |-> version_info(ns[self].version)]
    IN  [python_name |-> [base |-> py_name(ns[self].version.distribution).base,
                          signature |-> hash_data(signature_data)],
         js_name |-> js_name]

_resolve_nodes(ns) == [i \in 1..Len(ns) |-> [ns[i] EXCEPT !.resolution = NodeResolution(ns, i)]]

ResolveNodes ==
    /\ pc = "_resolve_nodes"
    /\ nodes' = _resolve_nodes(nodes)
    /\ pc' = "_create_distributions"
    /\ UNCHANGED <<registry, queue, cur, deps, root_deps, store, wheel,
                   runs, algebraVars, parseVars,
                   importVars, archiveVars, fetchVars, chunkVars>>

\* a dependencies dict that lists only the children whose package the node's
\* own package.json declares
dependencies_declared_only(ns, self) ==
    LET declared == version_info(ns[self].version)
        children == SelectSeq(ns[self].children,
                              LAMBDA c : \E i \in 1..Len(declared) :
                                  declared[i].package = ns[c].version.distribution)
    IN  [error |-> "",
         value |-> { << ns[children[i]].resolution.python_name,
                        flat_py_range(ns[children[i]].constraint).value >> :
                     i \in 1..Len(children) }]

\* the dependencies dict _create_distributions builds for a node: a later
\* child replaces an earlier one of the same python_name
dependencies(ns, self) ==
    LET children == ns[self].children
        key(i) == ns[children[i]].resolution.python_name
        value(i) == flat_py_range(ns[children[i]].constraint)
    IN  IF \E i \in 1..Len(children) : value(i).error # "" THEN Raise("ValueError")
        ELSE Ok({ << key(i), value(i).value >> : i \in
                    { i \in 1..Len(children) :
                        \A j \in 1..Len(children) : j > i => key(j) # key(i) } })

\* the Distribution row _create_distributions appends to to_create for a node
Distribution(ns, self) ==
    [original |-> ns[self].version.distribution, generated_for |-> ns[1].version,
     js_name |-> ns[self].resolution.js_name,
     python_name |-> ns[self].resolution.python_name,
     dependencies |-> dependencies(ns, self).value]

\* bulk_create is a plain INSERT: it fails as a whole on unique_together
\* (generated_for, js_name) and on the unique python_name, between two rows
\* of to_create as well as between one of them and a row already stored
IntegrityError(ns) ==
    \/ \E i, j \in 2..Len(ns) :
          /\ i # j
          /\ \/ ns[i].resolution.js_name = ns[j].resolution.js_name
             \/ ns[i].resolution.python_name = ns[j].resolution.python_name
    \/ \E i \in 2..Len(ns) : \E row \in store :
          \/ /\ row.generated_for = ns[1].version
             /\ row.js_name = ns[i].resolution.js_name
          \/ row.python_name = ns[i].resolution.python_name

\* _create_distributions: the root comes first and its Version is saved at
\* once; the rows of the other nodes are inserted together at the end
CreateDistributions ==
    /\ pc = "_create_distributions"
    /\ root_deps' = IF dependencies(nodes, 1).error # "" THEN root_deps
                    ELSE [saved |-> TRUE, value |-> dependencies(nodes, 1).value]
    /\ IF \E i \in 1..Len(nodes) : dependencies(nodes, i).error # ""
       THEN pc' = "ValueError in flat_py_range" /\ store' = store
       ELSE IF IntegrityError(nodes)
       THEN pc' = "IntegrityError" /\ store' = store
       ELSE /\ pc' = "done"
            /\ store' = store \cup { Distribution(nodes, i) : i \in 2..Len(nodes) }
    /\ UNCHANGED <<registry, nodes, queue, cur, deps, wheel, runs, algebraVars, parseVars,
                   importVars, archiveVars, fetchVars, chunkVars>>

(***************************************************************************)
(* make_archive: PackageTranslator on a stored distribution and one of     *)
(* the versions of the package behind it; only METADATA's Requires-Dist    *)
(* is followed, for the first archive that is asked for.                   *)
(***************************************************************************)
\* the registry of the model declares no peerDependencies
_generate_dependencies_req(info) ==
    { << [base |-> "npym", signature |-> << >>], << Clause(">=", PyZero) >> >> }
        \cup { << py_name(info[i].package),
                  IF sem_range_to_py_range(info[i].spec).error # ""
                  THEN << Clause(">=", PyZero) >>
                  ELSE sem_range_to_py_range(info[i].spec).value >> :
               i \in 1..Len(info) }

make_archive ==
    /\ pc = "done" /\ wheel = NoResult
    /\ \E distribution \in store :
         \E js_version \in RegistryVersions(distribution.original) :
           wheel' = [op |-> "make_archive", distribution |-> distribution,
                     js_version |-> js_version,
                     value |-> _generate_dependencies_req(
                                   version_info(Version(distribution.original, js_version)))]
    /\ UNCHANGED <<registry, nodes, queue, cur, deps, pc, root_deps, store,
                   runs, algebraVars, parseVars,
                   importVars, archiveVars, fetchVars, chunkVars>>

\* Resolver(version).resolve() is called once more for the same root, on
\* the same registry and the same database (followed when no wheel was
\* made in between: a wheel changes nothing resolve() reads)
ResolveAgain ==
    /\ pc = "done" /\ runs = 1 /\ wheel = NoResult
    /\ runs' = 2
    /\ nodes' = << Node(nodes[1].version, 0, parse_spec(Exact(1))) >>
    /\ queue' = << 1 >> /\ cur' = 0 /\ deps' = << >>
    /\ pc' = "build_dep_tree"
    /\ UNCHANGED <<registry, root_deps, store, wheel, algebraVars, parseVars,
                   importVars, archiveVars, fetchVars, chunkVars>>

Next ==
    \/ Expand \/ Ingest \/ Built \/ ResolveNodes \/ CreateDistributions
    \/ make_archive \/ ResolveAgain

Spec == Init /\ [][Next]_vars

(***************************************************************************)
(* Properties of the resolver.                                             *)
(***************************************************************************)
\* build_dep_tree has returned
BuildReturned ==
    pc \in {"_resolve_nodes", "_create_distributions", "done", "IntegrityError",
            "ValueError in flat_py_range"}

\* C4: after build_dep_tree returns, the chain of nodes from the root down
\* to any node carries no Distribution more than once, whatever the registry.
C4_NoDistributionTwiceOnChain ==
    BuildReturned =>
        \A i \in 1..Len(nodes) :
            LET names == ancestors_js_names(nodes, i)
            IN  \A a, b \in 1..Len(names) : a # b => names[a] # names[b]

\* the step is one call of ingest that returned
IngestStep == pc = "build_dep_tree" /\ cur # 0 /\ pc' = pc

\* the node ingest finds for the dependency it is given (0: none)
Existing == node_for(nodes, cur, Head(deps).version.distribution)

\* the registry versions both the existing node and the dependency accept
AcceptedByBoth ==
    { v \in RegistryVersions(Head(deps).version.distribution) :
        accept(nodes[Existing].constraint, v) /\ accept(Head(deps).constraint, v) }

\* C5: when ingest finds a node E for the dependency's distribution and a
\* registry version is accepted by both constraints, no node is added,
\* E.constraint becomes the intersection of the two, E.version the highest
\* registry version both accept, and modified (the node is queued) is true
\* exactly when E.version changed.
C5_MergeIntersects ==
    [][(IngestStep /\ Existing # 0 /\ AcceptedByBoth # {}) =>
          /\ Len(nodes') = Len(nodes)
          /\ \A v \in ProbeVersions :
                accept(nodes'[Existing].constraint, v)
                    <=> (accept(nodes[Existing].constraint, v)
                            /\ accept(Head(deps).constraint, v))
          /\ nodes'[Existing].version.js_version \in AcceptedByBoth
          /\ \A v \in AcceptedByBoth :
                SemCompare(v, nodes'[Existing].version.js_version) <= 0
          /\ (queue' = Append(queue, Existing))
                <=> (nodes'[Existing].version # nodes[Existing].version)
          /\ (queue' = queue) <=> (nodes'[Existing].version = nodes[Existing].version)
      ]_vars

\* the step added exactly one node under parent, carrying the dependency's
\* version and constraint, and queued it
AddedUnder(parent) ==
    /\ Len(nodes') = Len(nodes) + 1
    /\ nodes'[Len(nodes')].parent = parent
    /\ nodes'[parent].children = Append(nodes[parent].children, Len(nodes'))
    /\ nodes'[Len(nodes')].version = Head(deps).version
    /\ nodes'[Len(nodes')].constraint = Head(deps).constraint
    /\ queue' = Append(queue, Len(nodes'))

\* C6: ingest of a dependency D requested by N: when no node of D's
\* distribution is visible from N, exactly one node is added, under the
\* root; when one is visible but no registry version is accepted by both
\* constraints, exactly one node is added, under N; the new node carries
\* D's version and constraint and is queued.
C6_HoistOrBranch ==
    [][IngestStep =>
          /\ Existing = 0 => AddedUnder(1)
          /\ (Existing # 0 /\ AcceptedByBoth = {}) => AddedUnder(cur)
      ]_vars

\* _resolve_nodes has run
Resolved == pc \in {"_create_distributions", "done", "IntegrityError",
                    "ValueError in flat_py_range"}

\* C7: once the nodes are resolved no two nodes have the same js_name path
\* and no two have the same python_name, and no node has two children
\* carrying the same Distribution.
C7_ResolvedNamesUnique ==
    Resolved =>
        /\ \A i, j \in 1..Len(nodes) :
              i # j => /\ nodes[i].resolution.js_name # nodes[j].resolution.js_name
                       /\ nodes[i].resolution.python_name # nodes[j].resolution.python_name
        /\ \A i \in 1..Len(nodes) :
              \A a, b \in 1..Len(nodes[i].children) :
                 a # b => nodes[nodes[i].children[a]].version.distribution
                             # nodes[nodes[i].children[b]].version.distribution

\* the root Version holds the dependencies that the resolve() which built
\* nodes has saved (a second resolve() finds those of the first until it
\* saves in its turn)
RootSaved ==
    root_deps.saved /\ pc \in {"done", "IntegrityError", "ValueError in flat_py_range"}

\* C8 as the specification states it: the dependencies saved on the root
\* Version have exactly one key for each of the root version's own NPM
\* dependencies and no other key.
C8_RootKeysAreDirectDependencies ==
    RootSaved =>
        LET direct == version_info(nodes[1].version)
        IN  /\ Cardinality(root_deps.value) = Len(direct)
            /\ \A i \in 1..Len(direct) :
                  \E k \in root_deps.value : k[1].base = py_name(direct[i].package).base
            /\ \A k \in root_deps.value :
                  \E i \in 1..Len(direct) : k[1].base = py_name(direct[i].package).base

\* C8, amended: the dependencies saved on the root Version have exactly one
\* key for each child of the root node, its python_name, with the range of
\* its constraint: one for each of the root version's own NPM dependencies
\* and one for each transitive dependency hoisted to the root; a node nested
\* under another node gives no key.
C8_RootKeysAreRootChildren ==
    RootSaved =>
        LET direct == version_info(nodes[1].version)
            children == nodes[1].children
        IN  /\ Cardinality(root_deps.value) = Len(children)
            /\ Cardinality({ k[1] : k \in root_deps.value }) = Len(children)
            /\ \A i \in 1..Len(children) :
                  << nodes[children[i]].resolution.python_name,
                     flat_py_range(nodes[children[i]].constraint).value >>
                      \in root_deps.value
            /\ \A i \in 1..Len(direct) :
                  \E k \in root_deps.value : k[1].base = py_name(direct[i].package).base
            /\ \A j \in 2..Len(nodes) :
                  nodes[j].parent # 1 =>
                      \A k \in root_deps.value : k[1] # nodes[j].resolution.python_name

\* the root's dependencies are saved for a tree with a direct dependency, a
\* dependency hoisted to the root and a nested node
C8_HoistedAndNestedSaved ==
    /\ RootSaved
    /\ version_info(nodes[1].version) # << >>
    /\ Len(nodes[1].children) > Len(version_info(nodes[1].version))
    /\ \E j \in 2..Len(nodes) : nodes[j].parent # 1

\* C9: for every registry the work queue of build_dep_tree becomes empty
\* and the call ends; no run goes on adding nodes with work still queued
\* (here: until the tree has outgrown MaxNodes nodes).
C9_QueueDrains == pc # "exhausted"

\* C10: the Requires-Dist of a wheel made for a synthetic distribution are
\* the pairs of the dependencies field stored on its row, plus the runtime
\* entry.
C10_RequiresDistIsStored ==
    wheel.op = "make_archive" =>
        wheel.value = wheel.distribution.dependencies
                          \cup { << [base |-> "npym", signature |-> << >>],
                                    << Clause(">=", PyZero) >> >> }

\* C11: a second resolve() for the same root on an unchanged registry ends
\* well: its save finds for every node the python_name the first run stored,
\* skips the rows that exist already and leaves the stored synthetic
\* Distributions as they were.
C11_SecondResolveChangesNothing ==
    [][(pc = "_create_distributions" /\ runs = 2) =>
          /\ pc' = "done"
          /\ store' = store
          /\ \A i \in 2..Len(nodes) :
                \E row \in store :
                    /\ row.js_name = nodes[i].resolution.js_name
                    /\ row.python_name = nodes[i].resolution.python_name
      ]_vars

\* the nodes carrying the distribution that are nearest to self: among its
\* children, or else among the children of its nearest ancestor that has one
RECURSIVE NearestCarrying(_, _, _)
NearestCarrying(ns, self, distribution) ==
    LET carrying == { c \in 1..Len(ns) :
                        ns[c].parent = self /\ ns[c].version.distribution = distribution }
    IN  IF carrying # {} THEN carrying
        ELSE IF ns[self].parent = 0 THEN {}
        ELSE NearestCarrying(ns, ns[self].parent, distribution)

\* C27: when build_dep_tree has returned, for every node N and every
\* (package, spec) its final version declares, the nearest node carrying the
\* package (among N's children, then among the children of each ancestor
\* from the nearest to the root) exists and has a version that spec accepts.
C27_NearestNodeSatisfies ==
    BuildReturned =>
        \A i \in 1..Len(nodes) :
            LET declared == version_info(nodes[i].version)
            IN  \A k \in 1..Len(declared) :
                    \E c \in NearestCarrying(nodes, i, declared[k].package) :
                        accept(from_spec(declared[k].spec).value, nodes[c].version.js_version)

\* C29: whether save_dependencies completes or raises, afterwards every key
\* of the root Version's dependencies and of a stored synthetic
\* Distribution's dependencies is the python_name of a stored Distribution,
\* and a save that raises leaves the root Version's dependencies as they
\* were.
C29_SaveIsAllOrNothing ==
    [][pc = "_create_distributions" =>
          LET stored == { row.python_name : row \in store' }
          IN  /\ root_deps'.saved => \A pair \in root_deps'.value : pair[1] \in stored
              /\ \A row \in store' : \A pair \in row.dependencies : pair[1] \in stored
              /\ pc' # "done" => root_deps' = root_deps
      ]_vars

(***************************************************************************)
(* SpecImport: Npm.import_names.  A name is the sequence of its            *)
(* characters.  A python name is [tag, name]: name is norm.py_name and     *)
(* tag is << >>, or the input of the SHA-256 whose first 8 hex digits are  *)
(* put after the prefix (x<digest>.), taken as free of collisions.         *)
(***************************************************************************)
MaxNames == 3      \* names in names.json

\* the characters of the model that [^a-zA-Z0-9] matches
PACKAGE_NON_CHAR == {".", "-", "_", "@", "/"}

\* str.lower, character by character
lower(name) == [i \in 1..Len(name) |-> IF name[i] = "A" THEN "a" ELSE name[i]]

_norm_py_name(package_name) ==
    LET l == lower(package_name)
        non(i) == l[i] \in PACKAGE_NON_CHAR
        \* a run of matching characters becomes one dash
        marked == [i \in 1..Len(l) |->
                     [c |-> IF non(i) THEN "-" ELSE l[i],
                      keep |-> ~non(i) \/ i = 1 \/ ~non(i - 1)]]
        kept == SelectSeq(marked, LAMBDA m : m.keep)
        sub == [i \in 1..Len(kept) |-> kept[i].c]
        left == IF sub # << >> /\ Head(sub) = "-" THEN Tail(sub) ELSE sub
    IN  IF left # << >> /\ left[Len(left)] = "-"
        THEN SubSeq(left, 1, Len(left) - 1) ELSE left

searchable_py_name(package_name) ==
    LET n == _norm_py_name(package_name)
    IN  [i \in 1..Len(n) |-> IF n[i] \in {"_", "."} THEN "-" ELSE n[i]]

make_safe_py_name(name) ==
    IF name = << >> THEN name
    ELSE IF Head(name) = "1" THEN << "n" >> \o name ELSE name

\* PACKAGE_RE, NormName, NormName.__post_init__ and NormName.py_name
_make_norm_name(package_name) ==
    LET l == lower(package_name)
        slashes == { i \in 3..(Len(l) - 1) : l[i] = "/" }
        cut == IF l # << >> /\ l[1] = "@" /\ Len(l) >= 2 /\ l[2] # "/" /\ slashes # {}
               THEN CHOOSE i \in slashes : \A j \in slashes : i <= j ELSE 0
        original_org == IF cut = 0 THEN << >> ELSE SubSeq(l, 2, cut - 1)
        original_package == IF cut = 0 THEN l ELSE SubSeq(l, cut + 1, Len(l))
        undefined == << "u", "n", "d", "e", "f", "i", "n", "e", "d" >>
        org == IF original_org # << >> /\ _norm_py_name(original_org) = << >>
               THEN undefined ELSE _norm_py_name(original_org)
        package == IF _norm_py_name(original_package) = << >>
                   THEN undefined ELSE _norm_py_name(original_package)
        NPYM_PREFIX == << "n", "p", "y", "m" >>
    IN  [package |-> package, org |-> org,
         py_name |-> IF org # << >>
                     THEN NPYM_PREFIX \o << "." >> \o make_safe_py_name(org)
                              \o << "." >> \o make_safe_py_name(package)
                     ELSE NPYM_PREFIX \o << "." >> \o make_safe_py_name(package)]

\* the dict import_names appends to to_add for a name
ToAdd(name) == [js_name |-> name, python_name |-> _make_norm_name(name).py_name]

\* a query that finds no row, whatever the database holds
no_conflicts_from_db(db, to_add) == {}

\* the primary rows of the buckets the chunk's names fall in
conflicts_from_db(db, to_add) ==
    { row \in db : \E k \in 1..Len(to_add) :
        row.python_name_base = searchable_py_name(to_add[k].python_name) }

\* the names of the chunk for a bucket, the last of to_add first
new_keys_reversed(to_add, python_name) ==
    LET js_names == SelectSeq(to_add, LAMBDA d :
                                 searchable_py_name(d.python_name) = python_name)
    IN  [k \in 1..Len(js_names) |-> js_names[Len(js_names) + 1 - k].js_name]

\* the names "for distribution in to_add" puts in names_index[python_name],
\* in the order of to_add
new_keys(to_add, python_name) ==
    LET js_names == SelectSeq(to_add, LAMBDA d :
                                 searchable_py_name(d.python_name) = python_name)
    IN  [k \in 1..Len(js_names) |-> js_names[k].js_name]

\* names_index[python_name] as the list of its keys: the rows of the
\* database in the order of dedup_seq, then the new names in the order of
\* to_add (a key that is there already keeps its place)
names_index(conflicts, to_add, python_name) ==
    LET from_db(bucket) ==
            CHOOSE q \in [1..Cardinality(bucket) -> bucket] :
                /\ \A i, j \in DOMAIN q : i # j => q[i] # q[j]
                /\ \A i, j \in DOMAIN q : i < j => q[i].dedup_seq <= q[j].dedup_seq
        js_name_of(rows) == [i \in DOMAIN rows |-> rows[i].js_name]
        RECURSIVE set(_, _, _)
        set(js_names, added, k) ==
            IF k > Len(added) THEN js_names
            ELSE IF \E i \in 1..Len(js_names) : js_names[i] = added[k]
                 THEN set(js_names, added, k + 1)
                 ELSE set(Append(js_names, added[k]), added, k + 1)
    IN  set(js_name_of(from_db({ row \in conflicts : row.python_name_base = python_name })),
            new_keys(to_add, python_name), 1)

\* a python name that is norm.py_name whatever the place in the bucket
dedup_python_name_plain(js_name, norm, i) == [tag |-> << >>, name |-> norm.py_name]

\* norm.py_name for the first name of a bucket; for the others
\* x<sha256(js_name:py_name:i)[0:8]>. is put after the prefix
dedup_python_name(js_name, norm, i) ==
    [tag |-> IF i = 0 THEN << >> ELSE << js_name, norm.py_name, i >>,
     name |-> norm.py_name]

\* to_add_real of _insert_distributions
to_add_real(db, to_add) ==
    LET row(python_name, js_name, i, name) ==
            [js_name |-> js_name,
             python_name |-> name,
             python_name_base |-> searchable_py_name(python_name),
             python_name_searchable |->
                 [tag |-> name.tag, name |-> searchable_py_name(name.name)],
             dedup_seq |-> i]
        bucket(python_name, js_names, present_names) ==
            { row(python_name, js_names[i + 1], i,
                  dedup_python_name(js_names[i + 1], _make_norm_name(js_names[i + 1]), i)) :
                i \in { i \in 0..(Len(js_names) - 1) : js_names[i + 1] \notin present_names } }
        buckets(conflicts) ==
            UNION { bucket(python_name, names_index(conflicts, to_add, python_name),
                           { conflict.js_name : conflict \in conflicts }) :
                      python_name \in { searchable_py_name(to_add[k].python_name) :
                                          k \in 1..Len(to_add) } }
    IN  buckets(conflicts_from_db(db, to_add))

\* bulk_insert is a plain INSERT; python_name and python_name_searchable
\* are unique
_insert_distributions(db, to_add) ==
    LET same(a, b) == \/ a.python_name = b.python_name
                      \/ a.python_name_searchable = b.python_name_searchable
        bulk_insert(rows) ==
            IF \/ \E a \in rows : \E b \in db : same(a, b)
               \/ \E a \in rows : \E b \in rows : a # b /\ same(a, b)
            THEN Raise("IntegrityError")
            ELSE Ok(db \cup rows)
    IN  bulk_insert(to_add_real(db, to_add))

\* names.json holds up to MaxNames of these names, in any order; a name
\* may come back (a later export lists the names of the earlier one again)
InitImport ==
    /\ names_json \in UNION { [1..n -> { << "a" >>, << "A" >>, << "a", ".", "b" >>,
                                    << "a", "-", "b" >>, << "@", "a", "/", "b" >>,
                                    << "1" >>, << "n", "1" >>, << "_" >> }] :
                         n \in 1..MaxNames }
    /\ todo = names_json /\ table = {} /\ raised = ""
    /\ AlgebraIdle /\ ParseIdle /\ ResolverIdle /\ ArchiveIdle
    /\ FetchIdle /\ ChunkIdle

\* one turn of "for chunk in ...": the next names, however the list is cut
InsertDistributions ==
    /\ raised = "" /\ todo # << >>
    /\ \E size \in 1..Len(todo) :
         \E done \in { _insert_distributions(
                          table, [k \in 1..size |-> ToAdd(todo[k])]) } :
             /\ todo' = SubSeq(todo, size + 1, Len(todo))
             /\ raised' = done.error
             /\ table' = IF done.error # "" THEN table ELSE done.value
    /\ UNCHANGED <<names_json, algebraVars, parseVars, resolverVars, archiveVars,
                   fetchVars, chunkVars>>

NextImport == InsertDistributions

SpecImport == InitImport /\ [][NextImport]_vars


(***************************************************************************)
(* Properties of the import of names.                                      *)
(***************************************************************************)
\* C12: after any sequence of import chunks no insert has failed, and any
\* two primary Distributions with different js_name have different
\* python_name_searchable and different python_name.
C12_DisjointPythonNames ==
    /\ raised = ""
    /\ \A a, b \in table :
          a.js_name # b.js_name =>
              /\ a.python_name_searchable # b.python_name_searchable
              /\ a.python_name # b.python_name

\* two names that normalize to the same py_name are both stored
C12_SamePyNameStored ==
    \E a, b \in table :
        /\ a.js_name # b.js_name
        /\ _make_norm_name(a.js_name).py_name = _make_norm_name(b.js_name).py_name

\* the names of names.json are distinct
Distinct == \A i, j \in 1..Len(names_json) : i # j => names_json[i] # names_json[j]

\* the bucket of a name
Base(name) == searchable_py_name(_make_norm_name(name).py_name)

\* C13: when a list of distinct names was imported, however it was cut in
\* chunks, the table holds the rows (dedup_seq and python_name of every
\* name) that importing the whole list as one chunk into an empty table
\* gives.
C13_ChunkingIsIrrelevant ==
    (todo = << >> /\ Distinct) =>
        /\ raised = ""
        /\ table = _insert_distributions(
                       {}, [k \in 1..Len(names_json) |-> ToAdd(names_json[k])]).value

\* three distinct names are imported, the third of the bucket of the first
\* and the second of another one
C13_LateCollisionImported ==
    /\ todo = << >> /\ Distinct /\ Len(names_json) = 3 /\ Cardinality(table) = 3
    /\ Base(names_json[3]) = Base(names_json[1])
    /\ Base(names_json[2]) # Base(names_json[1])

\* C14: an import chunk leaves every stored primary row as it is, gives
\* every name of the chunk that is not stored a row whose dedup_seq is not
\* below the number of rows its bucket had, and leaves the dedup_seq values
\* of every bucket exactly 0..n-1, n the number of rows of the bucket.
C14_SequenceOnlyGrows ==
    [][todo' # todo =>
          LET chunk == SubSeq(todo, 1, Len(todo) - Len(todo'))
              bucket(rows, base) == { row \in rows : row.python_name_base = base }
          IN  /\ table \subseteq table'
              /\ \A k \in 1..Len(chunk) : \E row \in table' : row.js_name = chunk[k]
              /\ \A row \in table' \ table :
                    row.dedup_seq >= Cardinality(bucket(table, row.python_name_base))
              /\ \A row \in table' :
                    { other.dedup_seq : other \in bucket(table', row.python_name_base) }
                        = 0..(Cardinality(bucket(table', row.python_name_base)) - 1)
      ]_vars

\* a bucket holds three rows, with the sequence numbers 1 and 2 among them
C14_BucketOfThree ==
    \E a, b \in table :
        /\ a.python_name_base = b.python_name_base
        /\ a.dedup_seq = 1 /\ b.dedup_seq = 2


(***************************************************************************)
(* SpecArchive: concurrent requests to the archive view for one wheel of   *)
(* one distribution.  A file is [path, content]; the database is read      *)
(* committed: a row is seen by the other requests once its transaction     *)
(* has committed.                                                          *)
(***************************************************************************)
MaxRequests == 2    \* concurrent requests

File(path, content) == [path |-> path, content |-> content]

\* one line for every file wheel_dir holds when it is called, in the order
\* of glob, and the trailer
_write_dist_info_records(files) ==
    LET paths == CHOOSE q \in [1..Cardinality(files) -> files] :
                     \A i, j \in DOMAIN q : i # j => q[i] # q[j]
    IN  [i \in 1..(Cardinality(files) + 1) |->
            IF i <= Cardinality(files)
            THEN [path |-> paths[i].path,
                  sha256 |-> << "sha256", paths[i].content >>,
                  size |-> << "st_size", paths[i].content >>]
            ELSE [path |-> "dist-info/RECORD", sha256 |-> << >>, size |-> << >>]]

\* _guess_entry_points, _write_module_init, _write_module_main and
\* _write_entrypoints_txt for a package.json with bin entries
_write_bin(info) ==
    (IF info.bin > 0 THEN { File("npym/x/__init__.py", "from npym import EntryPoints") }
     ELSE {})
    \cup (IF info.bin = 1 THEN { File("npym/x/__main__.py", "entrypoints.x()") } ELSE {})
    \cup (IF info.bin > 0 THEN { File("dist-info/entry_points.txt", "[console_scripts]") }
          ELSE {})

\* the files of wheel_dir and the lines of RECORD after _write_dist_info
_write_dist_info(info, files) ==
    LET written == files \cup { File("dist-info/WHEEL", "Wheel-Version: 1.0") }
                     \cup (IF info.license THEN { File("dist-info/LICENSE", "License: MIT") }
                           ELSE {})
                     \cup { File("dist-info/METADATA", "Metadata-Version: 2.1") }
        lines == _write_dist_info_records(written)
    IN  [files |-> written \cup { File("dist-info/RECORD", "RECORD") } \cup _write_bin(info),
         record |-> lines]

\* a check that accepts every tarball
_check_source_integrity_skipped(tarball) == ""

\* the exception of _check_source_integrity ("": none)
_check_source_integrity(tarball) == IF tarball = "tampered" THEN "ValueError" ELSE ""

\* _translate on the tarball the registry serves: the exception it ends
\* with, the steps it called and the wheel it zipped
_translate(info, tarball) ==
    LET failed(error, steps) ==
            [error |-> error, steps |-> steps, wheel |-> {}, record |-> << >>]
        built == _write_dist_info(
                     info, { File("npym/node_modules/x/package.json", "{}"),
                             File("npym/node_modules/x/index.js", "module.exports") })
    IN  IF tarball = "unreachable"
        THEN failed("ConnectError", << "_download_source" >>)
        ELSE IF _check_source_integrity(tarball) # ""
        THEN failed(_check_source_integrity(tarball),
                    << "_download_source", "_check_source_integrity" >>)
        ELSE IF tarball = "not a tar"
        THEN failed("ReadError", << "_download_source", "_check_source_integrity",
                                    "_extract_source" >>)
        ELSE [error |-> "",
              steps |-> << "_download_source", "_check_source_integrity",
                           "_extract_source", "_copy_source", "_write_dist_info",
                           "_zip_wheel" >>,
              wheel |-> built.files, record |-> built.record]

\* a SELECT that takes no lock
select(lock) == TRUE

\* SELECT ... FOR UPDATE waits while another transaction holds the row
select_for_update(lock) == lock = 0

InitArchive ==
    /\ package_json \in [bin : 0..2, license : BOOLEAN]
    /\ request = [r \in 1..MaxRequests |->
                     [pc |-> "archive", error |-> "", tarball |-> "", steps |-> << >>,
                      work_dir |-> "", built |-> << >>, arch |-> << >>]]
    /\ row_lock = 0 /\ archives = {} /\ downloads = {}
    /\ AlgebraIdle /\ ParseIdle /\ ResolverIdle /\ ImportIdle /\ FetchIdle
    /\ ChunkIdle

\* the exception leaves archive(): atomic rolls back, the lock goes
Rollback(r, error, fields) ==
    /\ request' = [request EXCEPT ![r] =
                      [fields EXCEPT !.pc = "failed", !.error = error, !.arch = << >>]]
    /\ row_lock' = IF row_lock = r THEN 0 ELSE row_lock

\* archive: Distribution.objects.select_for_update().filter(...).first()
SelectForUpdate(r) ==
    /\ request[r].pc = "archive"
    /\ select_for_update(row_lock)
    /\ row_lock' = r
    /\ request' = [request EXCEPT ![r].pc = "locked"]
    /\ UNCHANGED <<package_json, archives, downloads, algebraVars, parseVars,
                   resolverVars, importVars, fetchVars, chunkVars>>

\* archive: arch = Archive.objects.filter(...).first()
FindArchive(r) ==
    /\ request[r].pc = "locked"
    /\ request' = [request EXCEPT ![r] =
                      IF archives = {} THEN [@ EXCEPT !.pc = "make_archive"]
                      ELSE [@ EXCEPT !.pc = "Download", !.arch = << CHOOSE a \in archives : TRUE >>]]
    /\ UNCHANGED <<package_json, row_lock, archives, downloads, algebraVars,
                   parseVars, resolverVars, importVars, fetchVars, chunkVars>>

\* make_archive: PackageTranslator.__enter__; when _translate raises the
\* with-statement is left without __exit__
Enter(r) ==
    /\ request[r].pc = "make_archive"
    /\ \E tarball \in {"unreachable", "tampered", "not a tar", "intact"} :
         LET done == _translate(package_json, tarball)
             entered == [request[r] EXCEPT !.tarball = tarball, !.steps = done.steps,
                                           !.work_dir = "exists"]
         IN  IF done.error # "" THEN Rollback(r, done.error, entered)
             ELSE /\ request' = [request EXCEPT ![r] =
                                    [entered EXCEPT !.pc = "with",
                                                    !.built = << [wheel |-> done.wheel,
                                                                  record |-> done.record] >>]]
                  /\ row_lock' = row_lock
    /\ UNCHANGED <<package_json, archives, downloads, algebraVars, parseVars,
                   resolverVars, importVars, fetchVars, chunkVars>>

\* the request made the Archive row it holds
Inserted(r) == request[r].arch # << >> /\ request[r].arch[1].id = r

\* make_archive: the body of the with-statement (the wheel is read and the
\* Archive row inserted, unique on (version, format, translator): the
\* insert waits for the transaction of a row that is not committed), then
\* __exit__
Exit(r) ==
    /\ request[r].pc = "with"
    /\ \A o \in 1..MaxRequests : (o # r /\ Inserted(o)) => request[o].pc = "served"
    /\ LET left == [request[r] EXCEPT !.work_dir = "deleted"]
       IN  \E error \in {"", "OSError"} :
             IF error # "" THEN Rollback(r, error, left)
             ELSE IF archives # {} THEN Rollback(r, "IntegrityError", left)
             ELSE /\ request' = [request EXCEPT ![r] =
                                    [left EXCEPT !.pc = "Download",
                                                 !.arch = << [id |-> r,
                                                              wheel |-> left.built[1].wheel,
                                                              record |-> left.built[1].record] >>]]
                  /\ row_lock' = row_lock
    /\ UNCHANGED <<package_json, archives, downloads, algebraVars, parseVars,
                   resolverVars, importVars, fetchVars, chunkVars>>

\* archive: Download.objects.create(archive=arch), the response, and the
\* commit of atomic
Respond(r) ==
    /\ request[r].pc = "Download"
    /\ archives' = archives \cup { request[r].arch[1] }
    /\ downloads' = downloads \cup { [id |-> r, archive |-> request[r].arch[1].id] }
    /\ row_lock' = IF row_lock = r THEN 0 ELSE row_lock
    /\ request' = [request EXCEPT ![r].pc = "served"]
    /\ UNCHANGED <<package_json, algebraVars, parseVars, resolverVars, importVars,
                   fetchVars, chunkVars>>

\* the finalizer of the TemporaryDirectory, when the translator of a failed
\* request is collected
Finalize(r) ==
    /\ request[r].pc = "failed" /\ request[r].work_dir = "exists"
    /\ request' = [request EXCEPT ![r].work_dir = "deleted"]
    /\ UNCHANGED <<package_json, row_lock, archives, downloads, algebraVars,
                   parseVars, resolverVars, importVars, fetchVars, chunkVars>>

NextArchive ==
    \/ \E r \in 1..MaxRequests : SelectForUpdate(r)
    \/ \E r \in 1..MaxRequests : FindArchive(r)
    \/ \E r \in 1..MaxRequests : Enter(r)
    \/ \E r \in 1..MaxRequests : Exit(r)
    \/ \E r \in 1..MaxRequests : Respond(r)
    \/ \E r \in 1..MaxRequests : Finalize(r)

SpecArchive == InitArchive /\ [][NextArchive]_vars

(***************************************************************************)
(* Properties of the archive view.                                         *)
(***************************************************************************)
\* C15: at any time at most one request is between taking the row and the
\* end of its transaction, at most one request has synthesized the wheel
\* and inserted an Archive row, at most one Archive row exists, and every
\* request that was served was served a committed row.
C15_OneSynthesis ==
    /\ Cardinality({ r \in 1..MaxRequests :
                       request[r].pc \in {"locked", "make_archive", "with", "Download"} }) <= 1
    /\ Cardinality({ r \in 1..MaxRequests : Inserted(r) }) <= 1
    /\ Cardinality(archives) <= 1
    /\ \A r \in 1..MaxRequests :
          request[r].pc = "served" => request[r].arch[1] \in archives

\* two requests are served the same row: one made it, the other found it
C15_BothServedOneRow ==
    /\ \A r \in 1..MaxRequests : request[r].pc = "served"
    /\ \E r \in 1..MaxRequests : Inserted(r)
    /\ \E r \in 1..MaxRequests : ~Inserted(r)

\* C16: a request whose tarball does not have the digest of dist.integrity
\* has failed, has not called _extract_source, and has no Archive row and
\* no Download row.
C16_MismatchLeavesNoRow ==
    \A r \in 1..MaxRequests :
        request[r].tarball = "tampered" =>
            /\ request[r].pc = "failed"
            /\ \A i \in 1..Len(request[r].steps) : request[r].steps[i] # "_extract_source"
            /\ \A a \in archives : a.id # r
            /\ \A d \in downloads : d.id # r

\* a request met a tampered tarball and a request was served
C16_MismatchThenServed ==
    /\ \E r \in 1..MaxRequests : request[r].tarball = "tampered"
    /\ \E r \in 1..MaxRequests : request[r].pc = "served"

\* C17: once control has left the with-statement of make_archive, on
\* whichever path, the working directory is deleted.
C17_WorkDirDeleted ==
    \A r \in 1..MaxRequests :
        request[r].pc \in {"failed", "Download", "served"}
            => request[r].work_dir # "exists"

\* C18: every file of an emitted wheel other than RECORD has exactly one
\* line in RECORD, with its sha256 and size.
C18_RecordListsEveryFile ==
    \A a \in archives :
        \A f \in a.wheel :
            f.path # "dist-info/RECORD" =>
                /\ Cardinality({ i \in 1..Len(a.record) : a.record[i].path = f.path }) = 1
                /\ \A i \in 1..Len(a.record) :
                      a.record[i].path = f.path =>
                          /\ a.record[i].sha256 = << "sha256", f.content >>
                          /\ a.record[i].size = << "st_size", f.content >>


(***************************************************************************)
(* SpecFetch: Resolver.deep_fetch, the asyncio tasks of one call.  A task  *)
(* runs without interruption from one await to the next; it awaits the     *)
(* lock of its js_name and the answer of the registry.                     *)
(***************************************************************************)
DeepFetchQuery(js_name, spec) == [js_name |-> js_name, spec |-> spec]

\* the document the registry answers for a package: its versions and what
\* each of them declares
PackageInfo(js_name) ==
    [v \in RegistryVersions(js_name) |-> registry[<< js_name, v >>]]

\* the keys of a cache
keys(cache) == { c.js_name : c \in cache }

\* a read that trusts the cache alone: a package it does not hold is taken
\* to declare nothing
get_package_info_cache_only(cache, js_name) ==
    IF js_name \in keys(cache)
    THEN (CHOOSE c \in cache : c.js_name = js_name).info
    ELSE [v \in RegistryVersions(js_name) |-> << >>]

\* get_package_info: the cached document, or the one the registry answers
get_package_info(cache, js_name) ==
    IF js_name \in keys(cache)
    THEN (CHOOSE c \in cache : c.js_name = js_name).info
    ELSE PackageInfo(js_name)

\* the cache after self._info_cache[js_name] = info
cached(cache, js_name, info) ==
    IF js_name \in keys(cache) THEN cache
    ELSE cache \cup { [js_name |-> js_name, info |-> info] }

\* the queries fetch_one adds for q: the dependencies of the highest
\* version the constraint accepts (the constraint is built once per call)
discovered(q) ==
    UNION { LET accepted == { v \in RegistryVersions(q.js_name) : accept(constraint, v) }
                best == CHOOSE v \in accepted : \A w \in accepted : SemCompare(w, v) <= 0
                info == version_info(Version(q.js_name, best))
            IN  IF accepted = {} THEN {}
                ELSE { DeepFetchQuery(info[i].package, info[i].spec) : i \in 1..Len(info) }
            : constraint \in { from_spec(q.spec).value } }

\* an except clause for the errors of the registry only
except_http(error) == error = "HTTPError"

\* except (httpx.HTTPError, lark.exceptions.LarkError, ValueError): pass
except(error) == error \in {"HTTPError", "LarkError", "ValueError"}

InitFetch ==
    /\ \E rn \in Declared("n", {Star, Unparseable}),
          rx \in Declared("x", {Star, Comparator("=", 1), Unparseable}),
          n1x \in Declared("x", {Comparator("=", 1)}),
          n2x \in Declared("x", {Star, Comparator("=", 2), Unparseable}),
          x2n \in Declared("n", {Star, Comparator("=", 1)}) :
         registry = [k \in UNION { { << p, v >> : v \in RegistryVersions(p) } :
                                   p \in Packages } |->
                        CASE k = << "r", SemVersion(1, 0, 0, "") >> -> rn \o rx
                          [] k = << "n", SemVersion(1, 0, 0, "") >> -> n1x
                          [] k = << "n", SemVersion(2, 0, 0, "") >> -> n2x
                          [] k = << "x", SemVersion(1, 0, 0, "") >> -> << >>
                          [] k = << "x", SemVersion(2, 0, 0, "") >> -> x2n]
    /\ nodes = << >> /\ queue = << >> /\ cur = 0 /\ deps = << >> /\ pc = "deep_fetch"
    /\ root_deps = NotSaved /\ store = {} /\ wheel = NoResult /\ runs = 0
    /\ to_fetch = { DeepFetchQuery("r", Exact(1)) }
    /\ fetching = {} /\ tasks = << >> /\ locks = {} /\ _info_cache = {}
    /\ requested = [p \in Packages |-> 0]
    /\ loop = "while"
    /\ AlgebraIdle /\ ParseIdle /\ ImportIdle /\ ArchiveIdle
    /\ ChunkIdle

\* fetch_diff: a task for every query of to_fetch - fetching, then gather
FetchDiff ==
    /\ loop = "while" /\ to_fetch \ fetching # {}
    /\ LET diff == to_fetch \ fetching
           order == CHOOSE o \in [1..Cardinality(diff) -> diff] :
                        \A i, j \in DOMAIN o : i # j => o[i] # o[j]
       IN  tasks' = tasks \o [i \in 1..Cardinality(diff) |->
                                 [q |-> order[i], pc |-> "created", error |-> ""]]
    /\ fetching' = to_fetch
    /\ loop' = "gather"
    /\ UNCHANGED <<to_fetch, locks, _info_cache, requested, algebraVars, parseVars,
                   resolverVars, importVars, archiveVars, chunkVars>>

\* fetch_one from "constraint = ..." to its end: the task is over
Finish(t) ==
    LET q == tasks[t].q
    IN  IF from_spec(q.spec).error # ""
        THEN /\ tasks' = [tasks EXCEPT ![t].pc = "done", ![t].error = from_spec(q.spec).error]
             /\ UNCHANGED <<_info_cache, to_fetch>>
        ELSE /\ tasks' = [tasks EXCEPT ![t].pc = "done"]
             /\ _info_cache' = cached(_info_cache, q.js_name, PackageInfo(q.js_name))
             /\ to_fetch' = to_fetch \cup discovered(q)

\* fetch_one: the lock is taken; on a cache hit the task runs to its end,
\* otherwise the request is sent and the answer awaited
Acquire(t) ==
    /\ loop = "gather" /\ tasks[t].pc = "created"
    /\ tasks[t].q.js_name \notin locks
    /\ IF tasks[t].q.js_name \in keys(_info_cache)
       THEN Finish(t) /\ UNCHANGED <<locks, requested>>
       ELSE /\ tasks' = [tasks EXCEPT ![t].pc = "awaiting"]
            /\ locks' = locks \cup { tasks[t].q.js_name }
            /\ requested' = [requested EXCEPT ![tasks[t].q.js_name] = @ + 1]
            /\ UNCHANGED <<_info_cache, to_fetch>>
    /\ UNCHANGED <<fetching, loop, algebraVars, parseVars,
                   resolverVars, importVars, archiveVars, chunkVars>>

\* fetch_one: npm.async_get_package_info answers or raises
Answer(t) ==
    /\ loop = "gather" /\ tasks[t].pc = "awaiting"
    /\ \E error \in {"", "HTTPError"} :
         IF error # ""
         THEN /\ tasks' = [tasks EXCEPT ![t].pc = "done", ![t].error = error]
              /\ UNCHANGED <<_info_cache, to_fetch>>
         ELSE Finish(t)
    /\ locks' = locks \ { tasks[t].q.js_name }
    /\ UNCHANGED <<fetching, requested, loop, algebraVars, parseVars,
                   resolverVars, importVars, archiveVars, chunkVars>>

\* fetch_diff: gather returns, or raises what a task did not catch
Gathered ==
    /\ loop = "gather" /\ \A t \in 1..Len(tasks) : tasks[t].pc = "done"
    /\ loop' = IF \E t \in 1..Len(tasks) : tasks[t].error # "" /\ ~except(tasks[t].error)
               THEN "raised" ELSE "while"
    /\ UNCHANGED <<to_fetch, fetching, tasks, locks, _info_cache, requested,
                   algebraVars, parseVars, resolverVars, importVars, archiveVars,
                   chunkVars>>

\* while to_fetch - fetching: ... ends
Return ==
    /\ loop = "while" /\ to_fetch \ fetching = {}
    /\ loop' = "returned"
    /\ UNCHANGED <<to_fetch, fetching, tasks, locks, _info_cache, requested,
                   algebraVars, parseVars, resolverVars, importVars, archiveVars,
                   chunkVars>>

NextFetch ==
    \/ FetchDiff \/ Gathered \/ Return
    \/ \E t \in 1..Len(tasks) : Acquire(t)
    \/ \E t \in 1..Len(tasks) : Answer(t)

SpecFetch == InitFetch /\ [][NextFetch]_vars

\* asyncio.run drives the loop until deep_fetch is over: a task that can run
\* is run, and every request is answered or fails (httpx times out)
FairFetch == SpecFetch /\ WF_vars(NextFetch)

(***************************************************************************)
(* Properties of deep_fetch.                                               *)
(***************************************************************************)
\* C19: during one deep_fetch the registry is asked at most once for a
\* js_name none of whose requests failed, and when deep_fetch has returned
\* it was asked for every js_name a query names.
C19_AskedOncePerName ==
    /\ \A t \in 1..Len(tasks) :
          (\A o \in 1..Len(tasks) :
               tasks[o].q.js_name = tasks[t].q.js_name => tasks[o].error # "HTTPError")
              => requested[tasks[t].q.js_name] <= 1
    /\ loop = "returned" =>
          \A t \in 1..Len(tasks) : requested[tasks[t].q.js_name] >= 1

\* C20: deep_fetch eventually returns, and then every query found has
\* exactly one task, which is over.
C20_ReturnsWithOneTaskEach ==
    <>(/\ loop = "returned"
       /\ \A q \in to_fetch :
             /\ Cardinality({ t \in 1..Len(tasks) : tasks[t].q = q }) = 1
             /\ \A t \in 1..Len(tasks) : tasks[t].pc = "done")

\* deep_fetch has returned after a request that failed and a specifier that
\* did not parse, and a task created after one of the two ended well
C20_ReturnedDespiteFailures ==
    /\ loop = "returned"
    /\ \E a, b, c \in 1..Len(tasks) :
         /\ tasks[a].error = "HTTPError" /\ tasks[b].error = "LarkError"
         /\ tasks[c].error = "" /\ (c > a \/ c > b)


(***************************************************************************)
(* SpecTree: Resolver.build_dep_tree, deep_fetch first and then the        *)
(* synchronous traversal, which reads every package through                *)
(* get_package_info and so through what deep_fetch has cached.             *)
(***************************************************************************)
\* get_dependencies reads the package of the version, then find_best_version
\* reads the package of each dependency
read_by_get_dependencies(cache, version) ==
    LET declared == get_package_info(cache, version.distribution)[version.js_version]
        RECURSIVE read(_, _)
        read(c, i) ==
            IF i > Len(declared) THEN c
            ELSE read(cached(c, declared[i].package,
                             get_package_info(c, declared[i].package)), i + 1)
    IN  read(cached(cache, version.distribution,
                    get_package_info(cache, version.distribution)), 1)

RECURSIVE while_queue(_, _, _)
RECURSIVE for_dep(_, _, _, _, _)

\* for dep in self.get_dependencies(node.version): ingest, queue.append
for_dep(cache, ns, q, node, ds) ==
    LET ingested(got) ==
            IF Len(got.nodes) > MaxNodes
            THEN [pc |-> "exhausted", nodes |-> ns, cache |-> cache]
            ELSE for_dep(cache, got.nodes,
                         IF got.modified THEN Append(q, got.node) ELSE q,
                         node, Tail(ds))
    IN  IF ds = << >> THEN while_queue(cache, ns, q)
        ELSE ingested(ingest(ns, node, Head(ds)))

\* while queue and (node := queue.pop(0)), q being the queue
while_queue(cache, ns, q) ==
    LET got_dependencies(found) ==
            IF found.error # ""
            THEN [pc |-> found.error \o " in get_dependencies", nodes |-> ns,
                  cache |-> cache]
            ELSE for_dep(read_by_get_dependencies(cache, ns[Head(q)].version),
                         ns, Tail(q), Head(q), found.value)
    IN  IF q = << >> THEN [pc |-> "_resolve_nodes", nodes |-> ns, cache |-> cache]
        ELSE got_dependencies(
                 get_dependencies_of(
                     get_package_info(cache, ns[Head(q)].version.distribution)
                         [ns[Head(q)].version.js_version]))

\* build_dep_tree after asyncio.run(self.deep_fetch(...)): pc, nodes and
\* cache when it returns or raises
build_dep_tree(cache) ==
    while_queue(cache,
                << Node(Version("r", SemVersion(1, 0, 0, "")), 0, parse_spec(Exact(1))) >>,
                << 1 >>)

\* deep_fetch has returned: the traversal runs on the cache it left
BuildDepTree ==
    /\ pc = "deep_fetch" /\ loop = "returned"
    /\ \E built \in { build_dep_tree(_info_cache) } :
         /\ pc' = built.pc
         /\ nodes' = built.nodes
         /\ _info_cache' = built.cache
    /\ UNCHANGED <<registry, queue, cur, deps, root_deps, store, wheel, runs,
                   to_fetch, fetching, tasks, locks, requested, loop,
                   algebraVars, parseVars, importVars, archiveVars,
                   chunkVars>>

NextTree ==
    \/ FetchDiff \/ Gathered \/ Return
    \/ \E t \in 1..Len(tasks) : Acquire(t)
    \/ \E t \in 1..Len(tasks) : Answer(t)
    \/ BuildDepTree

SpecTree == InitFetch /\ [][NextTree]_vars

(***************************************************************************)
(* Properties of build_dep_tree after deep_fetch.                          *)
(***************************************************************************)
\* C21: whatever deep_fetch cached and in whatever order its tasks ended,
\* build_dep_tree ends as it does on an empty cache: the same nodes (parent
\* links, versions, constraints) and the same outcome.
C21_TreeIgnoresCache ==
    pc # "deep_fetch" =>
        /\ nodes = build_dep_tree({}).nodes
        /\ pc = build_dep_tree({}).pc

\* a tree of three nodes or more was built after a request of deep_fetch
\* failed, one of its packages being read from the registry by the
\* traversal and another one from the cache
C21_BuiltOnPartialCache ==
    /\ pc = "_resolve_nodes" /\ Len(nodes) >= 3
    /\ \E t \in 1..Len(tasks) : tasks[t].error = "HTTPError"
    /\ \E i, j \in 1..Len(nodes) :
         /\ \A t \in 1..Len(tasks) :
               tasks[t].q.js_name = nodes[i].version.distribution => tasks[t].error # ""
         /\ \E t \in 1..Len(tasks) :
               tasks[t].q.js_name = nodes[j].version.distribution /\ tasks[t].error = ""


(***************************************************************************)
(* SpecChunks: ChunkIterator(stream).chunks(chunk_size), read the way      *)
(* import_names reads it: every chunk to its end before the next one is    *)
(* asked for.  total is None, so no progress bar is made.                  *)
(***************************************************************************)
MaxLen == 4        \* elements of the stream
MaxSize == 3       \* the size of a chunk

None == "None"

\* ChunkIterator.next: [value, after], after being the object afterwards;
\* next(self.iterator) raises StopIteration on an empty iterator
next(self) ==
    [value |-> self._next,
     after |-> IF self.iterator = << >> THEN [self EXCEPT !.iterating = FALSE]
               ELSE [self EXCEPT !._next = Head(self.iterator),
                                 !.iterator = Tail(self.iterator)]]

\* an object whose __init__ does not read ahead
ChunkIterator_not_primed(iterable) ==
    [iterator |-> iterable, iterating |-> TRUE, _next |-> None, iterated |-> 0]

\* ChunkIterator.__init__, which ends on self.next()
ChunkIterator(iterable) ==
    next([iterator |-> iterable, iterating |-> TRUE, _next |-> None,
          iterated |-> 0]).after

InitChunks ==
    /\ stream \in UNION { [1..n -> {"a", "b"}] : n \in 0..MaxLen }
    /\ chunk_size \in 1..MaxSize
    /\ chunker = ChunkIterator(stream)
    /\ gen = "chunks" /\ range_i = -1 /\ handed = << >> /\ yielded = << >>
    /\ AlgebraIdle /\ ParseIdle /\ ResolverIdle /\ ImportIdle /\ ArchiveIdle
    /\ FetchIdle

\* chunks(): the for loop asks for the next chunk; "while self.iterating:
\* yield iter_chunk()", and the generator returns when the test fails
NextChunk ==
    /\ gen = "chunks"
    /\ gen' = IF chunker.iterating THEN "iter_chunk" ELSE "StopIteration"
    /\ range_i' = -1 /\ handed' = << >>
    /\ UNCHANGED <<stream, chunk_size, chunker, yielded, algebraVars, parseVars,
                   resolverVars, importVars, archiveVars, fetchVars>>

\* iter_chunk() is resumed and has nothing more to yield: after a yield it
\* counts the element, breaks when not self.iterating and ends with range()
IterChunkEnds ==
    range_i # -1 /\ (~chunker.iterating \/ range_i + 1 >= chunk_size)

\* iter_chunk(): the inner for loop asks for the next name and gets one
NextName ==
    /\ gen = "iter_chunk" /\ ~IterChunkEnds
    /\ \E counted \in { IF range_i = -1 THEN chunker
                         ELSE [chunker EXCEPT !.iterated = @ + 1] } :
         /\ chunker' = next(counted).after
         /\ handed' = Append(handed, next(counted).value)
    /\ range_i' = range_i + 1
    /\ UNCHANGED <<stream, chunk_size, gen, yielded, algebraVars, parseVars,
                   resolverVars, importVars, archiveVars, fetchVars>>

\* iter_chunk(): the inner for loop asks for the next name and the chunk
\* is at its end
ChunkRead ==
    /\ gen = "iter_chunk" /\ IterChunkEnds
    /\ chunker' = [chunker EXCEPT !.iterated = @ + 1]
    /\ yielded' = Append(yielded, handed)
    /\ gen' = "chunks" /\ handed' = << >> /\ range_i' = -1
    /\ UNCHANGED <<stream, chunk_size, algebraVars, parseVars,
                   resolverVars, importVars, archiveVars, fetchVars>>

NextChunks == NextChunk \/ NextName \/ ChunkRead

SpecChunks == InitChunks /\ [][NextChunks]_vars

RECURSIVE Concat(_)
Concat(seqs) == IF seqs = << >> THEN << >> ELSE Head(seqs) \o Concat(Tail(seqs))

\* C30: for every stream and every size >= 1, the chunks, each read to its
\* end before the next is asked for, concatenate to the stream; every chunk
\* is non-empty, every chunk but the last has exactly size elements, and an
\* empty stream yields no chunk.
C30_ChunksCutTheStream ==
    gen = "StopIteration" =>
        /\ Concat(yielded) = stream
        /\ \A k \in 1..Len(yielded) :
              /\ yielded[k] # << >>
              /\ k < Len(yielded) => Len(yielded[k]) = chunk_size
        /\ stream = << >> => yielded = << >>

\* a stream was cut in full chunks and a shorter last one
C30_ShortLastChunk ==
    /\ gen = "StopIteration" /\ Len(yielded) >= 2
    /\ Len(yielded[Len(yielded)]) < chunk_size
    /\ chunker.iterated = Len(stream)

====
